---- MODULE Spec2Model ----
(***************************************************************************)
(* The conversational intake of the DTC assessment tool: the session state *)
(* kept in st.session_state (app.py), the handlers that change it, the    *)
(* state machine of modules/chat_intake.py, the per-state extractor of    *)
(* modules/chat_llm_v2.py, the judgment engine, the timebox and the        *)
(* context handoff.                                                        *)
(*                                                                         *)
(* Python values: a dict is a function from its keys (d.get(k) is Get),    *)
(* None is the string "None", a list is a sequence, a str is a string.     *)
(* A text is the string itself; len() is Len; the substring tests          *)
(* `kw in text.lower()` are read from KwTable, which lists for every text  *)
(* of the model the source's keywords that occur in its lower-cased form.  *)
(***************************************************************************)
EXTENDS Integers, Sequences, FiniteSets, TLC

VARIABLES
    current_state,   \* st.session_state.current_state
    intake_packet,   \* st.session_state.intake_packet
    assumptions,     \* st.session_state.assumptions
    timebox,         \* st.session_state.timebox
    chat_history,    \* st.session_state.chat_history, the user messages of it
    chat_buttons,    \* st.session_state.chat_buttons
    api_key,         \* the Anthropic key the session runs with, "" when there is none
    last,            \* what the last operation was given and what it returned
    handoff,         \* a ContextHandoff document
    config,          \* the "timebox" section of the configuration the session runs with
    session_state,   \* st.session_state of every session of the server process, by session identifier
    _current_logger  \* the module-level _current_logger of modules/trace_log.py

vars == <<current_state, intake_packet, assumptions, timebox, chat_history,
          chat_buttons, api_key, last, handoff, config, session_state, _current_logger>>

session == <<current_state, intake_packet, assumptions, timebox, chat_history,
             chat_buttons, last>>

None == "None"

\* dict.get(key): the value, or None when the key is absent
Get(d, k) == IF k \in DOMAIN d THEN d[k] ELSE None

\* Python truthiness of an optional string
Truthy(v) == v # None /\ v # ""

\* d[k] = v on a dict
Put(d, k, v) == [x \in DOMAIN d \cup {k} |-> IF x = k THEN v ELSE d[x]]

\* `a or b` on optional strings
Or(a, b) == IF Truthy(a) THEN a ELSE b

RECURSIVE SeqOfSet(_)
SeqOfSet(S) == IF S = {} THEN <<>> ELSE LET x == CHOOSE y \in S : TRUE IN <<x>> \o SeqOfSet(S \ {x})

InSeq(x, seq) == \E i \in DOMAIN seq : seq[i] = x

\* A line break of a text is written " / "
NL == " / "

RECURSIVE Join(_)
\* "\n".join(parts)
Join(parts) == IF parts = <<>> THEN "" ELSE IF Len(parts) = 1 THEN parts[1]
               ELSE parts[1] \o NL \o Join(Tail(parts))

RECURSIVE Concat(_)
\* "".join(parts)
Concat(parts) == IF parts = <<>> THEN "" ELSE parts[1] \o Concat(Tail(parts))

\* The texts of the model: user messages, model summaries, field values, titles
Texts ==
    {"hi",
     "our hospital in the usa wants to reduce cost",
     "our hospital and its insurance desk want to cut no-shows",
     "We run banquet halls and want to predict catering demand",
     "Just run it.",
     "we need a pilot in 6 weeks",
     "about 200 employees",
     "Predict catering demand for banquet halls",
     "events",
     "energy",
     "hospitality",
     "healthcare",
     "retail",
     "Finance",
     "finance",
     "cost",
     "Growth",
     "growth",
     "revenue",
     "risk",
     "transform",
     "US",
     "large",
     "urgent",
     "maintenance team",
     "VP of Operations",
     "High",
     "high",
     "medium",
     "low",
     "extreme",
     "Canada",
     "manufacturing",
     "technology",
     "logistics",
     "education",
     "government",
     "agriculture",
     "real_estate",
     "EU",
     "UK",
     "global",
     "Australia",
     "Germany",
     "Singapore",
     "small",
     "enterprise",
     "near-term",
     "exploratory",
     "0-3mo",
     "3-6mo",
     "6-12mo",
     "12mo+",
     "1-50",
     "51-200",
     "1001-5000",
     "5000+",
     "POC/Pilot",
     "Pilot",
     "Production",
     "Long-term",
     "Exploratory",
     "Small/Startup",
     "Mid-size",
     "Large",
     "Enterprise",
     "",
     "Industry",
     "Use case intent",
     "Opportunity shape",
     "Jurisdiction",
     "Stakeholder reality",
     "Timeline",
     "Org scale",
     "Integration surface",
     "Risk posture",
     "Confirmed agent type",
     "S0_ENTRY",
     "S1_INTENT",
     "S2_OPPORTUNITY",
     "S4_BOUNDARY",
     "Does the timeline conflict with the budget?",
     "Who signs off?",
     "no customer data leaves the EU",
     "Use Case Intent",
     "Opportunity Shape",
     "Organization Size",
     "Stakeholder Reality",
     "Integration Surface",
     "Risk Posture",
     "Boundaries",
     "in 0 weeks",
     "in 1 week",
     "in 2 weeks",
     "in 3 weeks",
     "in 4 weeks",
     "in 5 weeks",
     "in 6 weeks",
     "in 7 weeks",
     "in 8 weeks",
     "in 9 weeks",
     "in 10 weeks",
     "in 11 weeks",
     "in 12 weeks",
     "in 13 weeks",
     "in 14 weeks",
     "in 15 weeks",
     "in 16 weeks",
     "in 17 weeks",
     "in 18 weeks",
     "in 19 weeks",
     "in 20 weeks",
     "in 21 weeks",
     "in 22 weeks",
     "in 23 weeks",
     "in 24 weeks",
     "in 25 weeks",
     "in 26 weeks",
     "in 0 months",
     "in 1 month",
     "in 2 months",
     "in 3 months",
     "in 4 months",
     "in 5 months",
     "in 6 months",
     "in 7 months",
     "in 8 months",
     "in 9 months",
     "in 10 months",
     "in 11 months",
     "in 12 months",
     "in 13 months",
     "in 14 months",
     "in 15 months",
     "in 16 months",
     "in 17 months",
     "in 18 months",
     "in 19 months",
     "in 20 months",
     "in 21 months",
     "in 22 months",
     "in 23 months",
     "in 24 months",
     "in 25 months",
     "in 26 months",
     "in 0 quarters",
     "in 1 quarter",
     "in 2 quarters",
     "in 3 quarters",
     "in 4 quarters",
     "in 5 quarters",
     "in 6 quarters",
     "in 7 quarters",
     "in 8 quarters",
     "in 9 quarters",
     "in 10 quarters",
     "in 11 quarters",
     "in 12 quarters",
     "in 13 quarters",
     "in 14 quarters",
     "in 15 quarters",
     "in 16 quarters",
     "in 17 quarters",
     "in 18 quarters",
     "in 19 quarters",
     "in 20 quarters",
     "in 21 quarters",
     "in 22 quarters",
     "in 23 quarters",
     "in 24 quarters",
     "in 25 quarters",
     "in 26 quarters",
     "in 0 years",
     "in 1 year",
     "in 2 years",
     "in 3 years",
     "in 4 years",
     "in 5 years",
     "in 6 years",
     "in 7 years",
     "in 8 years",
     "in 9 years",
     "in 10 years",
     "in 11 years",
     "in 12 years",
     "in 13 years",
     "in 14 years",
     "in 15 years",
     "in 16 years",
     "in 17 years",
     "in 18 years",
     "in 19 years",
     "in 20 years",
     "in 21 years",
     "in 22 years",
     "in 23 years",
     "in 24 years",
     "in 25 years",
     "in 26 years",
     "this month",
     "next quarter",
     "eventually, no rush"}

KwTable ==
    "hi" :> {} @@
    "our hospital in the usa wants to reduce cost" :> {"cost", "hospital", "reduce", "us", "usa"} @@
    "our hospital and its insurance desk want to cut no-shows" :> {"cut", "hospital", "insurance"} @@
    "We run banquet halls and want to predict catering demand" :> {"banquet", "catering"} @@
    "Just run it." :> {"us"} @@
    "we need a pilot in 6 weeks" :> {"pilot", "week"} @@
    "about 200 employees" :> {"200 employees"} @@
    "Predict catering demand for banquet halls" :> {"banquet", "catering"} @@
    "events" :> {"event", "events"} @@
    "energy" :> {"energy"} @@
    "hospitality" :> {"hospital", "hospitality"} @@
    "healthcare" :> {"health", "healthcare"} @@
    "retail" :> {"retail"} @@
    "Finance" :> {"finance"} @@
    "finance" :> {"finance"} @@
    "cost" :> {"cost"} @@
    "Growth" :> {"grow", "growth"} @@
    "growth" :> {"grow", "growth"} @@
    "revenue" :> {"revenue", "venue"} @@
    "risk" :> {"risk"} @@
    "transform" :> {"transform"} @@
    "US" :> {"us"} @@
    "large" :> {"large"} @@
    "urgent" :> {"urgent"} @@
    "maintenance team" :> {} @@
    "VP of Operations" :> {} @@
    "High" :> {} @@
    "high" :> {} @@
    "medium" :> {} @@
    "low" :> {} @@
    "extreme" :> {} @@
    "Canada" :> {"canada"} @@
    "manufacturing" :> {"manufactur", "manufacturing"} @@
    "technology" :> {"tech", "technology"} @@
    "logistics" :> {"logistics"} @@
    "education" :> {"education"} @@
    "government" :> {"government"} @@
    "agriculture" :> {"agri", "agriculture"} @@
    "real_estate" :> {"real_estate"} @@
    "EU" :> {"eu"} @@
    "UK" :> {"uk"} @@
    "global" :> {"global"} @@
    "Australia" :> {"australia", "us"} @@
    "Germany" :> {"german", "germany"} @@
    "Singapore" :> {"singapore"} @@
    "small" :> {"small"} @@
    "enterprise" :> {"enterprise", "erp"} @@
    "near-term" :> {"near-term"} @@
    "exploratory" :> {"exploratory"} @@
    "0-3mo" :> {"0-3mo"} @@
    "3-6mo" :> {"3-6mo"} @@
    "6-12mo" :> {"6-12mo"} @@
    "12mo+" :> {"12mo+"} @@
    "1-50" :> {"1-50"} @@
    "51-200" :> {"51-200"} @@
    "1001-5000" :> {"1-50", "1001-5000"} @@
    "5000+" :> {"5000+"} @@
    "POC/Pilot" :> {"pilot", "poc"} @@
    "Pilot" :> {"pilot"} @@
    "Production" :> {"production"} @@
    "Long-term" :> {} @@
    "Exploratory" :> {"exploratory"} @@
    "Small/Startup" :> {"small", "startup"} @@
    "Mid-size" :> {"mid-size", "size"} @@
    "Large" :> {"large"} @@
    "Enterprise" :> {"enterprise", "erp"} @@
    "" :> {} @@
    "Industry" :> {"industry", "us"} @@
    "Use case intent" :> {"us"} @@
    "Opportunity shape" :> {} @@
    "Jurisdiction" :> {"jurisdiction"} @@
    "Stakeholder reality" :> {} @@
    "Timeline" :> {"time", "timeline"} @@
    "Org scale" :> {"org", "scale"} @@
    "Integration surface" :> {} @@
    "Risk posture" :> {"pos", "risk"} @@
    "Confirmed agent type" :> {} @@
    "S0_ENTRY" :> {} @@
    "S1_INTENT" :> {} @@
    "S2_OPPORTUNITY" :> {} @@
    "S4_BOUNDARY" :> {"boundary"} @@
    "Does the timeline conflict with the budget?" :> {"conflict", "time", "timeline"} @@
    "Who signs off?" :> {} @@
    "no customer data leaves the EU" :> {"eu", "us"} @@
    "Use Case Intent" :> {"us"} @@
    "Opportunity Shape" :> {} @@
    "Organization Size" :> {"org", "size"} @@
    "Stakeholder Reality" :> {} @@
    "Integration Surface" :> {} @@
    "Risk Posture" :> {"pos", "risk"} @@
    "Boundaries" :> {} @@
    "in 0 weeks" :> {"week"} @@
    "in 1 week" :> {"week"} @@
    "in 2 weeks" :> {"week"} @@
    "in 3 weeks" :> {"week"} @@
    "in 4 weeks" :> {"week"} @@
    "in 5 weeks" :> {"week"} @@
    "in 6 weeks" :> {"week"} @@
    "in 7 weeks" :> {"week"} @@
    "in 8 weeks" :> {"week"} @@
    "in 9 weeks" :> {"week"} @@
    "in 10 weeks" :> {"week"} @@
    "in 11 weeks" :> {"week"} @@
    "in 12 weeks" :> {"week"} @@
    "in 13 weeks" :> {"week"} @@
    "in 14 weeks" :> {"week"} @@
    "in 15 weeks" :> {"week"} @@
    "in 16 weeks" :> {"week"} @@
    "in 17 weeks" :> {"week"} @@
    "in 18 weeks" :> {"week"} @@
    "in 19 weeks" :> {"week"} @@
    "in 20 weeks" :> {"week"} @@
    "in 21 weeks" :> {"week"} @@
    "in 22 weeks" :> {"week"} @@
    "in 23 weeks" :> {"week"} @@
    "in 24 weeks" :> {"week"} @@
    "in 25 weeks" :> {"week"} @@
    "in 26 weeks" :> {"week"} @@
    "in 0 months" :> {"month"} @@
    "in 1 month" :> {"month"} @@
    "in 2 months" :> {"month"} @@
    "in 3 months" :> {"month"} @@
    "in 4 months" :> {"month"} @@
    "in 5 months" :> {"month"} @@
    "in 6 months" :> {"month"} @@
    "in 7 months" :> {"month"} @@
    "in 8 months" :> {"month"} @@
    "in 9 months" :> {"month"} @@
    "in 10 months" :> {"month"} @@
    "in 11 months" :> {"month"} @@
    "in 12 months" :> {"month"} @@
    "in 13 months" :> {"month"} @@
    "in 14 months" :> {"month"} @@
    "in 15 months" :> {"month"} @@
    "in 16 months" :> {"month"} @@
    "in 17 months" :> {"month"} @@
    "in 18 months" :> {"month"} @@
    "in 19 months" :> {"month"} @@
    "in 20 months" :> {"month"} @@
    "in 21 months" :> {"month"} @@
    "in 22 months" :> {"month"} @@
    "in 23 months" :> {"month"} @@
    "in 24 months" :> {"month"} @@
    "in 25 months" :> {"month"} @@
    "in 26 months" :> {"month"} @@
    "in 0 quarters" :> {"quarter"} @@
    "in 1 quarter" :> {"quarter"} @@
    "in 2 quarters" :> {"quarter"} @@
    "in 3 quarters" :> {"quarter"} @@
    "in 4 quarters" :> {"quarter"} @@
    "in 5 quarters" :> {"quarter"} @@
    "in 6 quarters" :> {"quarter"} @@
    "in 7 quarters" :> {"quarter"} @@
    "in 8 quarters" :> {"quarter"} @@
    "in 9 quarters" :> {"quarter"} @@
    "in 10 quarters" :> {"quarter"} @@
    "in 11 quarters" :> {"quarter"} @@
    "in 12 quarters" :> {"quarter"} @@
    "in 13 quarters" :> {"quarter"} @@
    "in 14 quarters" :> {"quarter"} @@
    "in 15 quarters" :> {"quarter"} @@
    "in 16 quarters" :> {"quarter"} @@
    "in 17 quarters" :> {"quarter"} @@
    "in 18 quarters" :> {"quarter"} @@
    "in 19 quarters" :> {"quarter"} @@
    "in 20 quarters" :> {"quarter"} @@
    "in 21 quarters" :> {"quarter"} @@
    "in 22 quarters" :> {"quarter"} @@
    "in 23 quarters" :> {"quarter"} @@
    "in 24 quarters" :> {"quarter"} @@
    "in 25 quarters" :> {"quarter"} @@
    "in 26 quarters" :> {"quarter"} @@
    "in 0 years" :> {"year"} @@
    "in 1 year" :> {"year"} @@
    "in 2 years" :> {"year"} @@
    "in 3 years" :> {"year"} @@
    "in 4 years" :> {"year"} @@
    "in 5 years" :> {"year"} @@
    "in 6 years" :> {"year"} @@
    "in 7 years" :> {"year"} @@
    "in 8 years" :> {"year"} @@
    "in 9 years" :> {"year"} @@
    "in 10 years" :> {"year"} @@
    "in 11 years" :> {"year"} @@
    "in 12 years" :> {"year"} @@
    "in 13 years" :> {"year"} @@
    "in 14 years" :> {"year"} @@
    "in 15 years" :> {"year"} @@
    "in 16 years" :> {"year"} @@
    "in 17 years" :> {"year"} @@
    "in 18 years" :> {"year"} @@
    "in 19 years" :> {"year"} @@
    "in 20 years" :> {"year"} @@
    "in 21 years" :> {"year"} @@
    "in 22 years" :> {"year"} @@
    "in 23 years" :> {"year"} @@
    "in 24 years" :> {"year"} @@
    "in 25 years" :> {"year"} @@
    "in 26 years" :> {"year"} @@
    "this month" :> {"month", "this month"} @@
    "next quarter" :> {"next quarter", "quarter"} @@
    "eventually, no rush" :> {"event", "eventually", "no rush", "us"}

LowerTable ==
    "We run banquet halls and want to predict catering demand" :> "we run banquet halls and want to predict catering demand" @@
    "Just run it." :> "just run it." @@
    "Predict catering demand for banquet halls" :> "predict catering demand for banquet halls" @@
    "Finance" :> "finance" @@
    "Growth" :> "growth" @@
    "US" :> "us" @@
    "VP of Operations" :> "vp of operations" @@
    "High" :> "high" @@
    "Canada" :> "canada" @@
    "EU" :> "eu" @@
    "UK" :> "uk" @@
    "Australia" :> "australia" @@
    "Germany" :> "germany" @@
    "Singapore" :> "singapore" @@
    "POC/Pilot" :> "poc/pilot" @@
    "Pilot" :> "pilot" @@
    "Production" :> "production" @@
    "Long-term" :> "long-term" @@
    "Exploratory" :> "exploratory" @@
    "Small/Startup" :> "small/startup" @@
    "Mid-size" :> "mid-size" @@
    "Large" :> "large" @@
    "Enterprise" :> "enterprise" @@
    "Industry" :> "industry" @@
    "Use case intent" :> "use case intent" @@
    "Opportunity shape" :> "opportunity shape" @@
    "Jurisdiction" :> "jurisdiction" @@
    "Stakeholder reality" :> "stakeholder reality" @@
    "Timeline" :> "timeline" @@
    "Org scale" :> "org scale" @@
    "Integration surface" :> "integration surface" @@
    "Risk posture" :> "risk posture" @@
    "Confirmed agent type" :> "confirmed agent type" @@
    "S0_ENTRY" :> "s0_entry" @@
    "S1_INTENT" :> "s1_intent" @@
    "S2_OPPORTUNITY" :> "s2_opportunity" @@
    "S4_BOUNDARY" :> "s4_boundary" @@
    "Does the timeline conflict with the budget?" :> "does the timeline conflict with the budget?" @@
    "Who signs off?" :> "who signs off?" @@
    "no customer data leaves the EU" :> "no customer data leaves the eu" @@
    "Use Case Intent" :> "use case intent" @@
    "Opportunity Shape" :> "opportunity shape" @@
    "Organization Size" :> "organization size" @@
    "Stakeholder Reality" :> "stakeholder reality" @@
    "Integration Surface" :> "integration surface" @@
    "Risk Posture" :> "risk posture" @@
    "Boundaries" :> "boundaries"

TitleTable ==
    "industry" :> "Industry" @@
    "use_case_intent" :> "Use Case Intent" @@
    "opportunity_shape" :> "Opportunity Shape" @@
    "jurisdiction" :> "Jurisdiction" @@
    "timeline" :> "Timeline" @@
    "organization_size" :> "Organization Size" @@
    "stakeholder_reality" :> "Stakeholder Reality" @@
    "integration_surface" :> "Integration Surface" @@
    "risk_posture" :> "Risk Posture" @@
    "boundaries" :> "Boundaries"


NumbersTable ==
    "we need a pilot in 6 weeks" :> <<6>> @@
    "about 200 employees" :> <<200>> @@
    "0-3mo" :> <<0, 3>> @@
    "3-6mo" :> <<3, 6>> @@
    "6-12mo" :> <<6, 12>> @@
    "12mo+" :> <<12>> @@
    "1-50" :> <<1, 50>> @@
    "51-200" :> <<51, 200>> @@
    "1001-5000" :> <<1001, 5000>> @@
    "5000+" :> <<5000>> @@
    "S0_ENTRY" :> <<0>> @@
    "S1_INTENT" :> <<1>> @@
    "S2_OPPORTUNITY" :> <<2>> @@
    "S4_BOUNDARY" :> <<4>> @@
    "in 0 weeks" :> <<0>> @@
    "in 1 week" :> <<1>> @@
    "in 2 weeks" :> <<2>> @@
    "in 3 weeks" :> <<3>> @@
    "in 4 weeks" :> <<4>> @@
    "in 5 weeks" :> <<5>> @@
    "in 6 weeks" :> <<6>> @@
    "in 7 weeks" :> <<7>> @@
    "in 8 weeks" :> <<8>> @@
    "in 9 weeks" :> <<9>> @@
    "in 10 weeks" :> <<10>> @@
    "in 11 weeks" :> <<11>> @@
    "in 12 weeks" :> <<12>> @@
    "in 13 weeks" :> <<13>> @@
    "in 14 weeks" :> <<14>> @@
    "in 15 weeks" :> <<15>> @@
    "in 16 weeks" :> <<16>> @@
    "in 17 weeks" :> <<17>> @@
    "in 18 weeks" :> <<18>> @@
    "in 19 weeks" :> <<19>> @@
    "in 20 weeks" :> <<20>> @@
    "in 21 weeks" :> <<21>> @@
    "in 22 weeks" :> <<22>> @@
    "in 23 weeks" :> <<23>> @@
    "in 24 weeks" :> <<24>> @@
    "in 25 weeks" :> <<25>> @@
    "in 26 weeks" :> <<26>> @@
    "in 0 months" :> <<0>> @@
    "in 1 month" :> <<1>> @@
    "in 2 months" :> <<2>> @@
    "in 3 months" :> <<3>> @@
    "in 4 months" :> <<4>> @@
    "in 5 months" :> <<5>> @@
    "in 6 months" :> <<6>> @@
    "in 7 months" :> <<7>> @@
    "in 8 months" :> <<8>> @@
    "in 9 months" :> <<9>> @@
    "in 10 months" :> <<10>> @@
    "in 11 months" :> <<11>> @@
    "in 12 months" :> <<12>> @@
    "in 13 months" :> <<13>> @@
    "in 14 months" :> <<14>> @@
    "in 15 months" :> <<15>> @@
    "in 16 months" :> <<16>> @@
    "in 17 months" :> <<17>> @@
    "in 18 months" :> <<18>> @@
    "in 19 months" :> <<19>> @@
    "in 20 months" :> <<20>> @@
    "in 21 months" :> <<21>> @@
    "in 22 months" :> <<22>> @@
    "in 23 months" :> <<23>> @@
    "in 24 months" :> <<24>> @@
    "in 25 months" :> <<25>> @@
    "in 26 months" :> <<26>> @@
    "in 0 quarters" :> <<0>> @@
    "in 1 quarter" :> <<1>> @@
    "in 2 quarters" :> <<2>> @@
    "in 3 quarters" :> <<3>> @@
    "in 4 quarters" :> <<4>> @@
    "in 5 quarters" :> <<5>> @@
    "in 6 quarters" :> <<6>> @@
    "in 7 quarters" :> <<7>> @@
    "in 8 quarters" :> <<8>> @@
    "in 9 quarters" :> <<9>> @@
    "in 10 quarters" :> <<10>> @@
    "in 11 quarters" :> <<11>> @@
    "in 12 quarters" :> <<12>> @@
    "in 13 quarters" :> <<13>> @@
    "in 14 quarters" :> <<14>> @@
    "in 15 quarters" :> <<15>> @@
    "in 16 quarters" :> <<16>> @@
    "in 17 quarters" :> <<17>> @@
    "in 18 quarters" :> <<18>> @@
    "in 19 quarters" :> <<19>> @@
    "in 20 quarters" :> <<20>> @@
    "in 21 quarters" :> <<21>> @@
    "in 22 quarters" :> <<22>> @@
    "in 23 quarters" :> <<23>> @@
    "in 24 quarters" :> <<24>> @@
    "in 25 quarters" :> <<25>> @@
    "in 26 quarters" :> <<26>> @@
    "in 0 years" :> <<0>> @@
    "in 1 year" :> <<1>> @@
    "in 2 years" :> <<2>> @@
    "in 3 years" :> <<3>> @@
    "in 4 years" :> <<4>> @@
    "in 5 years" :> <<5>> @@
    "in 6 years" :> <<6>> @@
    "in 7 years" :> <<7>> @@
    "in 8 years" :> <<8>> @@
    "in 9 years" :> <<9>> @@
    "in 10 years" :> <<10>> @@
    "in 11 years" :> <<11>> @@
    "in 12 years" :> <<12>> @@
    "in 13 years" :> <<13>> @@
    "in 14 years" :> <<14>> @@
    "in 15 years" :> <<15>> @@
    "in 16 years" :> <<16>> @@
    "in 17 years" :> <<17>> @@
    "in 18 years" :> <<18>> @@
    "in 19 years" :> <<19>> @@
    "in 20 years" :> <<20>> @@
    "in 21 years" :> <<21>> @@
    "in 22 years" :> <<22>> @@
    "in 23 years" :> <<23>> @@
    "in 24 years" :> <<24>> @@
    "in 25 years" :> <<25>> @@
    "in 26 years" :> <<26>>


TimeTable ==
    "we need a pilot in 6 weeks" :> <<6, "week">> @@
    "in 0 weeks" :> <<0, "week">> @@
    "in 1 week" :> <<1, "week">> @@
    "in 2 weeks" :> <<2, "week">> @@
    "in 3 weeks" :> <<3, "week">> @@
    "in 4 weeks" :> <<4, "week">> @@
    "in 5 weeks" :> <<5, "week">> @@
    "in 6 weeks" :> <<6, "week">> @@
    "in 7 weeks" :> <<7, "week">> @@
    "in 8 weeks" :> <<8, "week">> @@
    "in 9 weeks" :> <<9, "week">> @@
    "in 10 weeks" :> <<10, "week">> @@
    "in 11 weeks" :> <<11, "week">> @@
    "in 12 weeks" :> <<12, "week">> @@
    "in 13 weeks" :> <<13, "week">> @@
    "in 14 weeks" :> <<14, "week">> @@
    "in 15 weeks" :> <<15, "week">> @@
    "in 16 weeks" :> <<16, "week">> @@
    "in 17 weeks" :> <<17, "week">> @@
    "in 18 weeks" :> <<18, "week">> @@
    "in 19 weeks" :> <<19, "week">> @@
    "in 20 weeks" :> <<20, "week">> @@
    "in 21 weeks" :> <<21, "week">> @@
    "in 22 weeks" :> <<22, "week">> @@
    "in 23 weeks" :> <<23, "week">> @@
    "in 24 weeks" :> <<24, "week">> @@
    "in 25 weeks" :> <<25, "week">> @@
    "in 26 weeks" :> <<26, "week">> @@
    "in 0 months" :> <<0, "month">> @@
    "in 1 month" :> <<1, "month">> @@
    "in 2 months" :> <<2, "month">> @@
    "in 3 months" :> <<3, "month">> @@
    "in 4 months" :> <<4, "month">> @@
    "in 5 months" :> <<5, "month">> @@
    "in 6 months" :> <<6, "month">> @@
    "in 7 months" :> <<7, "month">> @@
    "in 8 months" :> <<8, "month">> @@
    "in 9 months" :> <<9, "month">> @@
    "in 10 months" :> <<10, "month">> @@
    "in 11 months" :> <<11, "month">> @@
    "in 12 months" :> <<12, "month">> @@
    "in 13 months" :> <<13, "month">> @@
    "in 14 months" :> <<14, "month">> @@
    "in 15 months" :> <<15, "month">> @@
    "in 16 months" :> <<16, "month">> @@
    "in 17 months" :> <<17, "month">> @@
    "in 18 months" :> <<18, "month">> @@
    "in 19 months" :> <<19, "month">> @@
    "in 20 months" :> <<20, "month">> @@
    "in 21 months" :> <<21, "month">> @@
    "in 22 months" :> <<22, "month">> @@
    "in 23 months" :> <<23, "month">> @@
    "in 24 months" :> <<24, "month">> @@
    "in 25 months" :> <<25, "month">> @@
    "in 26 months" :> <<26, "month">> @@
    "in 0 quarters" :> <<0, "quarter">> @@
    "in 1 quarter" :> <<1, "quarter">> @@
    "in 2 quarters" :> <<2, "quarter">> @@
    "in 3 quarters" :> <<3, "quarter">> @@
    "in 4 quarters" :> <<4, "quarter">> @@
    "in 5 quarters" :> <<5, "quarter">> @@
    "in 6 quarters" :> <<6, "quarter">> @@
    "in 7 quarters" :> <<7, "quarter">> @@
    "in 8 quarters" :> <<8, "quarter">> @@
    "in 9 quarters" :> <<9, "quarter">> @@
    "in 10 quarters" :> <<10, "quarter">> @@
    "in 11 quarters" :> <<11, "quarter">> @@
    "in 12 quarters" :> <<12, "quarter">> @@
    "in 13 quarters" :> <<13, "quarter">> @@
    "in 14 quarters" :> <<14, "quarter">> @@
    "in 15 quarters" :> <<15, "quarter">> @@
    "in 16 quarters" :> <<16, "quarter">> @@
    "in 17 quarters" :> <<17, "quarter">> @@
    "in 18 quarters" :> <<18, "quarter">> @@
    "in 19 quarters" :> <<19, "quarter">> @@
    "in 20 quarters" :> <<20, "quarter">> @@
    "in 21 quarters" :> <<21, "quarter">> @@
    "in 22 quarters" :> <<22, "quarter">> @@
    "in 23 quarters" :> <<23, "quarter">> @@
    "in 24 quarters" :> <<24, "quarter">> @@
    "in 25 quarters" :> <<25, "quarter">> @@
    "in 26 quarters" :> <<26, "quarter">> @@
    "in 0 years" :> <<0, "year">> @@
    "in 1 year" :> <<1, "year">> @@
    "in 2 years" :> <<2, "year">> @@
    "in 3 years" :> <<3, "year">> @@
    "in 4 years" :> <<4, "year">> @@
    "in 5 years" :> <<5, "year">> @@
    "in 6 years" :> <<6, "year">> @@
    "in 7 years" :> <<7, "year">> @@
    "in 8 years" :> <<8, "year">> @@
    "in 9 years" :> <<9, "year">> @@
    "in 10 years" :> <<10, "year">> @@
    "in 11 years" :> <<11, "year">> @@
    "in 12 years" :> <<12, "year">> @@
    "in 13 years" :> <<13, "year">> @@
    "in 14 years" :> <<14, "year">> @@
    "in 15 years" :> <<15, "year">> @@
    "in 16 years" :> <<16, "year">> @@
    "in 17 years" :> <<17, "year">> @@
    "in 18 years" :> <<18, "year">> @@
    "in 19 years" :> <<19, "year">> @@
    "in 20 years" :> <<20, "year">> @@
    "in 21 years" :> <<21, "year">> @@
    "in 22 years" :> <<22, "year">> @@
    "in 23 years" :> <<23, "year">> @@
    "in 24 years" :> <<24, "year">> @@
    "in 25 years" :> <<25, "year">> @@
    "in 26 years" :> <<26, "year">>


\* The durations a user may state: the text, its number and its unit
Durations ==
    {<<"in 0 weeks", 0, "week">>, <<"in 1 week", 1, "week">>, <<"in 2 weeks", 2, "week">>,
     <<"in 3 weeks", 3, "week">>, <<"in 4 weeks", 4, "week">>, <<"in 5 weeks", 5, "week">>,
     <<"in 6 weeks", 6, "week">>, <<"in 7 weeks", 7, "week">>, <<"in 8 weeks", 8, "week">>,
     <<"in 9 weeks", 9, "week">>, <<"in 10 weeks", 10, "week">>, <<"in 11 weeks", 11, "week">>,
     <<"in 12 weeks", 12, "week">>, <<"in 13 weeks", 13, "week">>, <<"in 14 weeks", 14, "week">>,
     <<"in 15 weeks", 15, "week">>, <<"in 16 weeks", 16, "week">>, <<"in 17 weeks", 17, "week">>,
     <<"in 18 weeks", 18, "week">>, <<"in 19 weeks", 19, "week">>, <<"in 20 weeks", 20, "week">>,
     <<"in 21 weeks", 21, "week">>, <<"in 22 weeks", 22, "week">>, <<"in 23 weeks", 23, "week">>,
     <<"in 24 weeks", 24, "week">>, <<"in 25 weeks", 25, "week">>, <<"in 26 weeks", 26, "week">>,
     <<"in 0 months", 0, "month">>, <<"in 1 month", 1, "month">>, <<"in 2 months", 2, "month">>,
     <<"in 3 months", 3, "month">>, <<"in 4 months", 4, "month">>, <<"in 5 months", 5, "month">>,
     <<"in 6 months", 6, "month">>, <<"in 7 months", 7, "month">>, <<"in 8 months", 8, "month">>,
     <<"in 9 months", 9, "month">>, <<"in 10 months", 10, "month">>, <<"in 11 months", 11, "month">>,
     <<"in 12 months", 12, "month">>, <<"in 13 months", 13, "month">>, <<"in 14 months", 14, "month">>,
     <<"in 15 months", 15, "month">>, <<"in 16 months", 16, "month">>, <<"in 17 months", 17, "month">>,
     <<"in 18 months", 18, "month">>, <<"in 19 months", 19, "month">>, <<"in 20 months", 20, "month">>,
     <<"in 21 months", 21, "month">>, <<"in 22 months", 22, "month">>, <<"in 23 months", 23, "month">>,
     <<"in 24 months", 24, "month">>, <<"in 25 months", 25, "month">>, <<"in 26 months", 26, "month">>,
     <<"in 0 quarters", 0, "quarter">>, <<"in 1 quarter", 1, "quarter">>, <<"in 2 quarters", 2, "quarter">>,
     <<"in 3 quarters", 3, "quarter">>, <<"in 4 quarters", 4, "quarter">>, <<"in 5 quarters", 5, "quarter">>,
     <<"in 6 quarters", 6, "quarter">>, <<"in 7 quarters", 7, "quarter">>, <<"in 8 quarters", 8, "quarter">>,
     <<"in 9 quarters", 9, "quarter">>, <<"in 10 quarters", 10, "quarter">>, <<"in 11 quarters", 11, "quarter">>,
     <<"in 12 quarters", 12, "quarter">>, <<"in 13 quarters", 13, "quarter">>, <<"in 14 quarters", 14, "quarter">>,
     <<"in 15 quarters", 15, "quarter">>, <<"in 16 quarters", 16, "quarter">>, <<"in 17 quarters", 17, "quarter">>,
     <<"in 18 quarters", 18, "quarter">>, <<"in 19 quarters", 19, "quarter">>, <<"in 20 quarters", 20, "quarter">>,
     <<"in 21 quarters", 21, "quarter">>, <<"in 22 quarters", 22, "quarter">>, <<"in 23 quarters", 23, "quarter">>,
     <<"in 24 quarters", 24, "quarter">>, <<"in 25 quarters", 25, "quarter">>, <<"in 26 quarters", 26, "quarter">>,
     <<"in 0 years", 0, "year">>, <<"in 1 year", 1, "year">>, <<"in 2 years", 2, "year">>,
     <<"in 3 years", 3, "year">>, <<"in 4 years", 4, "year">>, <<"in 5 years", 5, "year">>,
     <<"in 6 years", 6, "year">>, <<"in 7 years", 7, "year">>, <<"in 8 years", 8, "year">>,
     <<"in 9 years", 9, "year">>, <<"in 10 years", 10, "year">>, <<"in 11 years", 11, "year">>,
     <<"in 12 years", 12, "year">>, <<"in 13 years", 13, "year">>, <<"in 14 years", 14, "year">>,
     <<"in 15 years", 15, "year">>, <<"in 16 years", 16, "year">>, <<"in 17 years", 17, "year">>,
     <<"in 18 years", 18, "year">>, <<"in 19 years", 19, "year">>, <<"in 20 years", 20, "year">>,
     <<"in 21 years", 21, "year">>, <<"in 22 years", 22, "year">>, <<"in 23 years", 23, "year">>,
     <<"in 24 years", 24, "year">>, <<"in 25 years", 25, "year">>, <<"in 26 years", 26, "year">>}

\* text.lower()
Lower(t) == IF t \in DOMAIN LowerTable THEN LowerTable[t] ELSE t

\* kw in text.lower()
KwIn(kw, t) == kw \in KwTable[t]

\* The keywords that " ".join(texts).lower() contains: no keyword of the source spans two
\* of the model's messages
KwOf(texts) == UNION {KwTable[texts[i]] : i \in DOMAIN texts}

\* any(kw in text for kw in kws)
AnyKw(kws, texts) ==
    LET found == KwOf(texts) IN
    \E i \in DOMAIN kws : kws[i] \in found

(***************************************************************************)
(* modules/timebox.py                                                      *)
(***************************************************************************)
hard_cap_turns == 18
hard_questions_max == 4
default_turns == 10
max_extension_turns == 2

\* No configuration (config=None), or one without a "timebox" section
NoConfig == [k \in {} |-> 0]

\* config["timebox"].get(key, default) under `if config and "timebox" in config`
Limit(cfg, key, default) == IF key \in DOMAIN cfg THEN cfg[key] ELSE default

init_timebox ==
    [turns |-> 0, hard_questions |-> 0, fast_path_offered |-> FALSE,
     hard_stop_reached |-> FALSE, extension_turns |-> 0]

\* register_turn with `>` for the `>=` of line 70: the hard stop comes a turn late
register_turn_late(tb, is_hard_question, cfg) ==
    LET hard_cap == Limit(cfg, "hard_cap_turns", hard_cap_turns)
        turns1 == tb.turns + 1 IN
    [turns             |-> turns1,
     hard_questions    |-> IF is_hard_question THEN tb.hard_questions + 1
                           ELSE tb.hard_questions,
     fast_path_offered |-> tb.fast_path_offered,
     hard_stop_reached |-> IF turns1 > hard_cap /\ ~tb.hard_stop_reached
                           THEN TRUE ELSE tb.hard_stop_reached,
     extension_turns   |-> IF tb.hard_stop_reached THEN tb.extension_turns + 1
                           ELSE tb.extension_turns]

register_turn(tb, is_hard_question, cfg) ==
    LET hard_cap == Limit(cfg, "hard_cap_turns", hard_cap_turns)
        turns1 == tb.turns + 1 IN
    [turns             |-> turns1,
     hard_questions    |-> IF is_hard_question THEN tb.hard_questions + 1
                           ELSE tb.hard_questions,
     fast_path_offered |-> tb.fast_path_offered,
     hard_stop_reached |-> IF turns1 >= hard_cap /\ ~tb.hard_stop_reached
                           THEN TRUE ELSE tb.hard_stop_reached,
     extension_turns   |-> IF tb.hard_stop_reached THEN tb.extension_turns + 1
                           ELSE tb.extension_turns]

should_offer_fast_path(tb, cfg) ==
    IF tb.fast_path_offered THEN FALSE
    ELSE IF tb.turns >= Limit(cfg, "default_turns", default_turns) THEN TRUE
    ELSE IF tb.hard_questions >= Limit(cfg, "hard_questions_max", hard_questions_max) THEN TRUE
    ELSE FALSE

mark_fast_path_offered(tb) == [tb EXCEPT !.fast_path_offered = TRUE]

\* reached_hard_stop with `>` for the `>=` of line 126
reached_hard_stop_late(tb, cfg) == tb.turns > Limit(cfg, "hard_cap_turns", hard_cap_turns)

reached_hard_stop(tb, cfg) == tb.turns >= Limit(cfg, "hard_cap_turns", hard_cap_turns)

should_force_proceed(tb) ==
    IF ~tb.hard_stop_reached THEN FALSE
    ELSE tb.extension_turns >= max_extension_turns

(***************************************************************************)
(* modules/judgment_engine.py                                              *)
(***************************************************************************)
CORE_JUDGMENTS ==
    << [id |-> "CJ01", name |-> "Industry", field |-> "industry",            criticality |-> "blocker"],
       [id |-> "CJ02", name |-> "Use case intent", field |-> "use_case_intent",     criticality |-> "blocker"],
       [id |-> "CJ03", name |-> "Opportunity shape", field |-> "opportunity_shape",   criticality |-> "important"],
       [id |-> "CJ04", name |-> "Jurisdiction", field |-> "jurisdiction",        criticality |-> "blocker"],
       [id |-> "CJ05", name |-> "Stakeholder reality", field |-> "stakeholder_reality", criticality |-> "nice-to-have"],
       [id |-> "CJ06", name |-> "Timeline", field |-> "timeline",            criticality |-> "important"],
       [id |-> "CJ07", name |-> "Org scale", field |-> "organization_size",   criticality |-> "important"],
       [id |-> "CJ08", name |-> "Integration surface", field |-> "integration_surface", criticality |-> "important"],
       [id |-> "CJ09", name |-> "Risk posture", field |-> "risk_posture",        criticality |-> "important"],
       [id |-> "CJ10", name |-> "Confirmed agent type", field |-> "confirmed_type",      criticality |-> "blocker"] >>

INDUSTRY_KEYWORDS ==
    << <<"healthcare", <<"health", "medical", "hospital", "patient", "clinical", "pharma", "drug">> >>,
       <<"finance", <<"bank", "financial", "trading", "investment", "insurance", "fintech", "payment">> >>,
       <<"manufacturing", <<"manufactur", "factory", "production", "assembly", "industrial">> >>,
       <<"retail", <<"retail", "ecommerce", "e-commerce", "shop", "store", "consumer">> >>,
       <<"technology", <<"tech", "software", "saas", "platform", "app", "digital">> >>,
       <<"energy", <<"energy", "utility", "power", "electric", "oil", "gas", "renewable">> >>,
       <<"logistics", <<"logistics", "supply chain", "shipping", "transport", "warehouse">> >>,
       <<"education", <<"education", "learning", "school", "university", "training">> >>,
       <<"government", <<"government", "public sector", "federal", "municipal", "civic">> >>,
       <<"agriculture", <<"agriculture", "farming", "crop", "livestock", "agri">> >> >>

OPPORTUNITY_KEYWORDS ==
    << <<"revenue", <<"revenue", "sales", "growth", "monetize", "profit", "income", "sell">> >>,
       <<"cost", <<"cost", "save", "efficiency", "reduce", "automate", "streamline", "cut">> >>,
       <<"risk", <<"risk", "compliance", "security", "protect", "prevent", "safety", "audit">> >>,
       <<"transform", <<"transform", "innovate", "disrupt", "reimagine", "new way", "change">> >> >>

REGULATED_INDUSTRIES == {"healthcare", "finance", "government", "energy"}

\* The keys of init_intake_packet in insertion order, the order of dict.items()
FieldOrder ==
    <<"industry", "use_case_intent", "opportunity_shape", "jurisdiction", "timeline",
      "organization_size", "stakeholder_reality", "integration_surface", "risk_posture",
      "boundaries">>

init_intake_packet ==
    [industry            |-> [value |-> None, confidence |-> "low", source |-> "inferred"],
     use_case_intent     |-> [value |-> None, confidence |-> "low", source |-> "inferred"],
     opportunity_shape   |-> [value |-> None, confidence |-> "low", source |-> "inferred"],
     jurisdiction        |-> [value |-> None, confidence |-> "low", source |-> "inferred"],
     timeline            |-> [bucket |-> None, raw |-> None, confidence |-> "low", source |-> "inferred"],
     organization_size   |-> [bucket |-> None, raw |-> None, confidence |-> "low", source |-> "inferred"],
     stakeholder_reality |-> [value |-> None, confidence |-> "low", source |-> "inferred"],
     integration_surface |-> [systems |-> <<>>, summary |-> None, confidence |-> "low", source |-> "inferred"],
     risk_posture        |-> [level |-> None, worst_case |-> None, confidence |-> "low", source |-> "inferred"],
     boundaries          |-> [value |-> None, confidence |-> "low", source |-> "inferred"]]

\* isinstance(packet[field], dict): use_case_synthesized holds a plain string
IsDict(field) == field # "use_case_synthesized"

\* packet.get(field, {}).get(key)
PGet(packet, field, key) ==
    IF field \in DOMAIN packet /\ IsDict(field) THEN Get(packet[field], key) ELSE None

\* packet.get("integration_surface", {}).get("systems"), [] when absent
Systems(packet) ==
    IF "integration_surface" \in DOMAIN packet
       /\ "systems" \in DOMAIN packet["integration_surface"]
    THEN packet["integration_surface"].systems ELSE <<>>

\* any(kw in user_text for kw in kws); user_text is held as the keywords it contains
AnyIn(kws, user_text) == \E i \in DOMAIN kws : kws[i] \in user_text

\* The table entries whose keyword list has a keyword in the text, in table order
MatchesIn(table, user_text) ==
    LET hit(e) == AnyIn(e[2], user_text)
        hits == SelectSeq(table, hit)
    IN [i \in DOMAIN hits |-> hits[i][1]]

\* The same over texts
Matches(table, texts) == MatchesIn(table, KwOf(texts))

extract_industry(user_text) ==
    LET matches == MatchesIn(INDUSTRY_KEYWORDS, user_text) IN
    IF Len(matches) = 1 THEN <<matches[1], "high">>
    ELSE IF Len(matches) > 1 THEN <<matches[1], "med">>
    ELSE <<None, "low">>

extract_opportunity_shape(user_text) ==
    LET found == user_text
        score(i) == Cardinality({k \in DOMAIN OPPORTUNITY_KEYWORDS[i][2] :
                                   OPPORTUNITY_KEYWORDS[i][2][k] \in found})
        idx == DOMAIN OPPORTUNITY_KEYWORDS
        max_score == CHOOSE m \in {score(i) : i \in idx} : \A i \in idx : score(i) <= m
        \* max(scores, key=scores.get): the first key with the greatest score
        winner == CHOOSE i \in idx : score(i) = max_score /\ \A j \in idx : score(j) = max_score => i <= j
    IN IF max_score = 0 THEN <<None, "low">>
       ELSE <<OPPORTUNITY_KEYWORDS[winner][1], IF max_score >= 2 THEN "high" ELSE "med">>

jurisdictions ==
    << <<"US", <<"united states", "usa", "u.s.", "america", "federal">> >>,
       <<"EU", <<"europe", "european union", "eu", "gdpr">> >>,
       <<"UK", <<"united kingdom", "uk", "britain", "england">> >>,
       <<"global", <<"global", "worldwide", "international", "multi-jurisdictional">> >>,
       <<"Canada", <<"canada", "canadian">> >>,
       <<"Australia", <<"australia", "australian">> >>,
       <<"Germany", <<"germany", "german">> >>,
       <<"Singapore", <<"singapore">> >> >>

extract_jurisdiction(user_text) ==
    LET matches == MatchesIn(jurisdictions, user_text) IN
    IF Len(matches) > 0 THEN <<matches[1], "high">> ELSE <<None, "low">>

extract_timeline(user_text) ==
    IF AnyIn(<<"poc", "proof of concept", "1-3 month", "quick", "pilot">>, user_text)
    THEN <<"0-3mo", "POC/Pilot", "high">>
    ELSE IF AnyIn(<<"3-6 month", "pilot project", "trial">>, user_text)
    THEN <<"3-6mo", "Pilot", "high">>
    ELSE IF AnyIn(<<"6-12 month", "production", "deploy", "rollout">>, user_text)
    THEN <<"6-12mo", "Production", "high">>
    ELSE IF AnyIn(<<"year", "long term", "scale", "enterprise">>, user_text)
    THEN <<"12mo+", "Long-term", "med">>
    ELSE IF AnyIn(<<"exploring", "research", "investigate", "feasibility">>, user_text)
    THEN <<"exploratory", "Exploratory", "med">>
    ELSE <<None, None, "low">>

extract_org_size(user_text) ==
    IF AnyIn(<<"startup", "small team", "5 people", "10 people">>, user_text)
    THEN <<"1-50", "Small/Startup", "med">>
    ELSE IF AnyIn(<<"mid-size", "medium", "growing", "100 people", "200 people">>, user_text)
    THEN <<"51-200", "Mid-size", "med">>
    ELSE IF AnyIn(<<"large", "enterprise", "1000", "thousand", "corporation">>, user_text)
    THEN <<"1001-5000", "Large", "med">>
    ELSE IF AnyIn(<<"fortune 500", "multinational", "global company", "10000">>, user_text)
    THEN <<"5000+", "Enterprise", "med">>
    ELSE <<None, None, "low">>

system_patterns ==
    << <<"Salesforce", <<"salesforce">> >>, <<"SAP", <<"sap">> >>, <<"Oracle", <<"oracle">> >>,
       <<"Workday", <<"workday">> >>, <<"ServiceNow", <<"servicenow">> >>, <<"Slack", <<"slack">> >>,
       <<"Jira", <<"jira">> >>, <<"Confluence", <<"confluence">> >>, <<"SharePoint", <<"sharepoint">> >>,
       <<"Microsoft Dynamics", <<"dynamics">> >>, <<"HubSpot", <<"hubspot">> >>,
       <<"Zendesk", <<"zendesk">> >>, <<"ERP System", <<"erp">> >>, <<"CRM System", <<"crm">> >>,
       <<"Database", <<"database">> >>, <<"API Integration", <<"api">> >> >>

extract_systems(user_text) == MatchesIn(system_patterns, user_text)

infer_risk_posture(packet) ==
    LET industry == PGet(packet, "industry", "value")
        use_case == PGet(packet, "use_case_intent", "value")
    IN IF Truthy(industry) /\ Lower(industry) \in REGULATED_INDUSTRIES THEN <<"high", "med">>
       ELSE IF Truthy(use_case)
                 /\ AnyKw(<<"autonom", "decision", "approve", "critical">>, <<use_case>>)
       THEN <<"high", "med">>
       ELSE IF Truthy(use_case)
                 /\ AnyKw(<<"assist", "recommend", "suggest", "support">>, <<use_case>>)
       THEN <<"low", "med">>
       ELSE <<"medium", "low">>

is_regulated_domain(packet) ==
    LET industry == PGet(packet, "industry", "value") IN
    Truthy(industry) /\ Lower(industry) \in REGULATED_INDUSTRIES

\* text[:n]; every text of the model is shorter than the cut
Prefix(t, n) == IF Len(t) <= n THEN t ELSE CHOOSE p \in {} : TRUE

\* An assumption's statement is kept as its template and the texts put into it
Statement(template, title, value) == [template |-> template, title |-> title, value |-> value]

\* The keywords of a template's fixed words that the code tests statements for
TemplateKw(template) ==
    CASE template = "{title} is {value}" -> {}
      [] template = "Operating in the {value} industry" -> {"industry"}
      [] template = "Risk level is {value} based on industry norms" -> {"risk", "industry"}

\* The statement as the text the code formats
StatementText(st) ==
    CASE st.template = "{title} is {value}" -> st.title \o " is " \o st.value
      [] st.template = "Operating in the {value} industry" -> "Operating in the " \o st.value \o " industry"
      [] st.template = "Risk level is {value} based on industry norms" ->
             "Risk level is " \o st.value \o " based on industry norms"

\* kw in statement.lower()
StatementHas(kw, st) ==
    kw \in TemplateKw(st.template) \/ KwIn(kw, st.title) \/ KwIn(kw, st.value)

\* judgment.get("value") or judgment.get("bucket") or judgment.get("level")
AnyValue(judgment) == Or(Or(Get(judgment, "value"), Get(judgment, "bucket")), Get(judgment, "level"))

\* The field set to what the text gives whether or not it has a value
Fill_again(packet, field, key, found, value) ==
    IF Truthy(found) THEN Put(packet, field, value) ELSE packet

\* update_judgments, lines 295-334: `if not updated[field].get(key): if found: updated[field] = value`
Fill(packet, field, key, found, value) ==
    IF ~Truthy(PGet(packet, field, key)) /\ Truthy(found) THEN Put(packet, field, value) ELSE packet

\* update_judgments, lines 336-343
FillSystems(packet, user_text) ==
    LET systems == extract_systems(user_text) IN
    IF systems # <<>> /\ Systems(packet) = <<>>
    THEN Put(packet, "integration_surface",
             [systems |-> systems, summary |-> "Integrates with: {systems}",
              confidence |-> "med", source |-> "inferred"])
    ELSE packet

\* update_judgments, lines 345-354
FillRisk(packet) ==
    LET risk == infer_risk_posture(packet) IN
    Fill(packet, "risk_posture", "level", risk[1],
         [level |-> risk[1], worst_case |-> None, confidence |-> risk[2], source |-> "inferred"])

\* update_judgments, lines 286-354: fill the fields that have no value yet
FillFromText(texts, packet) ==
    LET \* line 288: user_text = " ".join(...), held as the keywords its lower case contains
        user_text == KwOf(texts)
        ind == extract_industry(user_text)
        long(m) == Len(m) > 20
        substantial == SelectSeq(texts, long)
        first == IF Len(substantial) > 0 THEN Prefix(substantial[1], 500) ELSE None
        opp == extract_opportunity_shape(user_text)
        jur == extract_jurisdiction(user_text)
        tl == extract_timeline(user_text)
        org == extract_org_size(user_text)
    IN FillRisk(FillSystems(
         Fill(Fill(Fill(Fill(Fill(Fill(packet,
           "industry", "value", ind[1],
              [value |-> ind[1], confidence |-> ind[2], source |-> "inferred"]),
           "use_case_intent", "value", first,
              [value |-> first, confidence |-> "med", source |-> "inferred"]),
           "opportunity_shape", "value", opp[1],
              [value |-> opp[1], confidence |-> opp[2], source |-> "inferred"]),
           "jurisdiction", "value", jur[1],
              [value |-> jur[1], confidence |-> jur[2], source |-> "inferred"]),
           "timeline", "bucket", tl[1],
              [bucket |-> tl[1], raw |-> tl[2], confidence |-> tl[3], source |-> "inferred"]),
           "organization_size", "bucket", org[1],
              [bucket |-> org[1], raw |-> org[2], confidence |-> org[3], source |-> "inferred"]),
         user_text))

CORE_JUDGMENT_FIELDS == {"industry", "use_case_intent", "jurisdiction", "opportunity_shape"}

\* update_judgments, lines 356-367: re-infer risk_posture when the industry changed
Ripple(packet, changed_field) ==
    IF changed_field # None /\ changed_field \in CORE_JUDGMENT_FIELDS /\ changed_field = "industry"
    THEN LET risk == infer_risk_posture(packet) IN
         Put(packet, "risk_posture",
             [level |-> risk[1], worst_case |-> PGet(packet, "risk_posture", "worst_case"),
              confidence |-> risk[2], source |-> "inferred"])
    ELSE packet

\* update_judgments, lines 368-371: the loop marks the assumptions gathered so far
MarkForRevalidation(gathered, changed_field) ==
    IF changed_field # None /\ changed_field \in CORE_JUDGMENT_FIELDS /\ changed_field = "industry"
    THEN [i \in DOMAIN gathered |->
            IF StatementHas("industry", gathered[i].statement) \/ StatementHas("risk", gathered[i].statement)
            THEN [gathered[i] EXCEPT !.status = "needs_revalidation"]
            ELSE gathered[i]]
    ELSE gathered

\* update_judgments, line 376-378: the field yields an assumption
IsAssumed(packet, field) ==
    /\ IsDict(field)
    /\ Get(packet[field], "source") = "inferred"
    /\ Truthy(AnyValue(packet[field]))
    /\ Get(packet[field], "confidence") \in {"med", "low"}

\* dict.items() order: the keys of the fresh packet, then the keys added later
ItemOrder(packet) ==
    LET known(f) == f \in DOMAIN packet
        extra == DOMAIN packet \ {FieldOrder[i] : i \in DOMAIN FieldOrder}
    IN SelectSeq(FieldOrder, known) \o SeqOfSet(extra)

\* update_judgments, lines 373-387; an id n stands for "A<n>"
GenerateAssumptions(packet) ==
    LET assumed(f) == IsAssumed(packet, f)
        fields == SelectSeq(ItemOrder(packet), assumed)
    IN [i \in DOMAIN fields |->
          [id |-> i,
           statement |-> Statement("{title} is {value}", TitleTable[fields[i]], AnyValue(packet[fields[i]])),
           confidence |-> Get(packet[fields[i]], "confidence"),
           impact |-> IF fields[i] \in {"industry", "jurisdiction", "use_case_intent"} THEN "high" ELSE "med",
           needs_confirmation |-> Get(packet[fields[i]], "confidence") = "low",
           status |-> "assumed"]]

\* update_judgments, lines 389-396
OpenQuestions(packet) ==
    LET open(cj) == /\ cj.criticality = "blocker"
                    /\ ~Truthy(Or(PGet(packet, cj.field, "value"), PGet(packet, cj.field, "bucket")))
        blockers == SelectSeq(CORE_JUDGMENTS, open)
    IN [i \in DOMAIN blockers |-> blockers[i].id]

update_judgments(texts, packet, changed_field) ==
    LET updated == Ripple(FillFromText(texts, packet), changed_field)
        \* assumptions = [] at line 284, and nothing is appended before the ripple
        gathered == MarkForRevalidation(<<>>, changed_field)
    IN [intake_packet  |-> updated,
        assumptions    |-> gathered \o GenerateAssumptions(updated),
        open_questions |-> OpenQuestions(updated)]

get_blocker_status(packet) ==
    LET blocker(cj) == cj.criticality = "blocker"
        blockers == SelectSeq(CORE_JUDGMENTS, blocker)
    IN [i \in DOMAIN blockers |->
          [id |-> blockers[i].id,
           ok |-> Truthy(Or(PGet(packet, blockers[i].field, "value"),
                           PGet(packet, blockers[i].field, "bucket")))]]

can_proceed_to_research(packet) ==
    LET status == get_blocker_status(packet)
        satisfied(cj) == \E i \in DOMAIN status : status[i].id = cj /\ status[i].ok
        unmet(cj) == ~satisfied(cj)
        missing == SelectSeq(<<"CJ01", "CJ02", "CJ04">>, unmet)
    IN <<Len(missing) = 0, missing>>

(***************************************************************************)
(* modules/chat_intake.py                                                  *)
(***************************************************************************)
\* The states of chat_intake.State and the split context states of chat_llm_v2
States ==
    {"S0_ENTRY", "S1_INTENT", "S2_OPPORTUNITY", "S3_CONTEXT", "S3_LOCATION", "S3_ORG_SIZE",
     "S3_TIMELINE", "S3_STAKEHOLDERS", "S4_INTEGRATION", "S4_RISK", "S4_INTEGRATION_RISK",
     "S5_ASSUMPTIONS_CHECK", "S6_RUN_STEP0", "S7_CONFIRM_TYPE", "S8_RUN_STEP1_3", "S9_EXPORTS"}

UserAction ==
    {"message", "fast_path", "confirm_proceed", "fix_assumption", "ask_question",
     "confirm_type", "start_over"}

determine_next_state(state, packet, user_action) ==
    IF user_action = "fast_path"
       /\ state \in {"S0_ENTRY", "S1_INTENT", "S2_OPPORTUNITY", "S3_CONTEXT", "S4_INTEGRATION_RISK"}
    THEN "S5_ASSUMPTIONS_CHECK"
    ELSE IF user_action = "fast_path" /\ state = "S5_ASSUMPTIONS_CHECK" THEN "S6_RUN_STEP0"
    ELSE IF user_action = "confirm_proceed" /\ state = "S5_ASSUMPTIONS_CHECK" THEN "S6_RUN_STEP0"
    ELSE IF user_action = "confirm_proceed" /\ state = "S7_CONFIRM_TYPE" THEN "S8_RUN_STEP1_3"
    ELSE IF user_action = "start_over" THEN "S0_ENTRY"
    ELSE IF state = "S0_ENTRY" THEN "S1_INTENT"
    ELSE IF state = "S1_INTENT"
    THEN LET use_case == PGet(packet, "use_case_intent", "value") IN
         IF Truthy(use_case) /\ Len(use_case) > 20 THEN "S2_OPPORTUNITY" ELSE "S1_INTENT"
    ELSE IF state = "S2_OPPORTUNITY"
    THEN IF Truthy(PGet(packet, "opportunity_shape", "value")) THEN "S3_CONTEXT" ELSE "S2_OPPORTUNITY"
    ELSE IF state = "S3_CONTEXT"
    THEN IF Truthy(PGet(packet, "industry", "value")) /\ Truthy(PGet(packet, "jurisdiction", "value"))
         THEN IF is_regulated_domain(packet) \/ Systems(packet) # <<>>
              THEN "S4_INTEGRATION_RISK" ELSE "S5_ASSUMPTIONS_CHECK"
         ELSE "S3_CONTEXT"
    ELSE IF state = "S4_INTEGRATION_RISK" THEN "S5_ASSUMPTIONS_CHECK"
    ELSE IF state = "S5_ASSUMPTIONS_CHECK" THEN "S5_ASSUMPTIONS_CHECK"
    ELSE IF state = "S6_RUN_STEP0" THEN "S7_CONFIRM_TYPE"
    ELSE IF state = "S7_CONFIRM_TYPE" THEN "S7_CONFIRM_TYPE"
    ELSE IF state = "S8_RUN_STEP1_3" THEN "S9_EXPORTS"
    ELSE state

\* The opening sentence of each text of UX_COPY
UX_COPY ==
    [S0_ENTRY |-> "Hi! I'm here to help you scope an AI agent project.",
     S1_INTENT |-> "What problem are you trying to solve with an AI agent?",
     S1_INTENT_FOLLOWUP |-> "That's helpful. If this worked perfectly, what would be different?",
     S2_OPPORTUNITY |-> "What would success look like? Are you mainly trying to:",
     S3_CONTEXT |-> "Quick context: Where does this operate, and roughly how big is your organization?",
     S4_INTEGRATION |-> "Will this agent need to connect to any existing systems?",
     S4_RISK |-> "If the agent made a mistake, what's the worst that could happen?",
     S5_ASSUMPTIONS_CHECK |-> "Let me summarize what I've understood.",
     HARD_STOP |-> "We've covered a lot of ground."]

\* The actions of the buttons, in order
CHECKPOINT_BUTTONS == <<"confirm_proceed", "fix_assumption", "ask_question", "fast_path">>

HARD_STOP_BUTTONS == <<"confirm_proceed", "message", "start_over">>

\* buttons = None: no button is shown
NoButtons == <<>>

generate_system_response(state, packet, assumed) ==
    LET messages ==
          IF state = "S1_INTENT"
          THEN IF ~Truthy(PGet(packet, "use_case_intent", "value")) THEN <<UX_COPY["S1_INTENT"]>> ELSE <<>>
          ELSE IF state = "S2_OPPORTUNITY"
          THEN IF ~Truthy(PGet(packet, "opportunity_shape", "value")) THEN <<UX_COPY["S2_OPPORTUNITY"]>> ELSE <<>>
          ELSE IF state = "S3_CONTEXT"
          THEN LET missing ==
                     (IF ~Truthy(PGet(packet, "industry", "value")) THEN <<"industry">> ELSE <<>>)
                  \o (IF ~Truthy(PGet(packet, "jurisdiction", "value")) THEN <<"jurisdiction">> ELSE <<>>)
                  \o (IF ~Truthy(PGet(packet, "organization_size", "bucket")) THEN <<"organization size">> ELSE <<>>)
               IN IF missing # <<>> THEN <<UX_COPY["S3_CONTEXT"]>> ELSE <<"Got it. Let me put together what I've understood.">>
          ELSE IF state = "S4_INTEGRATION_RISK"
          THEN    (IF is_regulated_domain(packet) /\ ~Truthy(PGet(packet, "risk_posture", "worst_case"))
                   THEN <<UX_COPY["S4_RISK"]>> ELSE <<>>)
               \o (IF Systems(packet) # <<>> THEN <<UX_COPY["S4_INTEGRATION"]>> ELSE <<>>)
          ELSE IF state = "S5_ASSUMPTIONS_CHECK"
          THEN LET part(label, field, key, tail) ==
                       IF Truthy(PGet(packet, field, key))
                       THEN <<label \o PGet(packet, field, key) \o tail>> ELSE <<>>
                   summary_parts ==
                          part("**Industry:** ", "industry", "value", "")
                       \o (IF Truthy(PGet(packet, "use_case_intent", "value"))
                           THEN <<"**Use Case:** " \o Prefix(PGet(packet, "use_case_intent", "value"), 200) \o "...">>
                           ELSE <<>>)
                       \o part("**Goal:** ", "opportunity_shape", "value", "")
                       \o part("**Jurisdiction:** ", "jurisdiction", "value", "")
                       \o part("**Org Size:** ", "organization_size", "bucket", "")
                       \o part("**Timeline:** ", "timeline", "bucket", "")
                   top == SubSeq(assumed, 1, IF Len(assumed) < 5 THEN Len(assumed) ELSE 5)
                   line(a) == "- " \o StatementText(a.statement)
                              \o (IF a.confidence = "low" THEN "?" ELSE "") \o NL
                   assumption_text ==
                       NL \o "**Assumptions I'm making:**" \o NL \o Concat([i \in DOMAIN top |-> line(top[i])])
               IN    <<UX_COPY["S5_ASSUMPTIONS_CHECK"]>>
                  \o (IF summary_parts # <<>> THEN <<Join(summary_parts)>> ELSE <<>>)
                  \o (IF assumed # <<>> THEN <<assumption_text>> ELSE <<>>)
          ELSE <<>>
    IN [messages |-> messages,
        buttons  |-> IF state = "S5_ASSUMPTIONS_CHECK" THEN CHECKPOINT_BUTTONS ELSE NoButtons]

\* create_message: the id, the timestamp and the metadata (which holds the state) are
\* left out; nothing reads them
create_message(role, content, state) == [role |-> role, content |-> content]

get_initial_messages ==
    <<create_message("assistant", UX_COPY["S0_ENTRY"], "S0_ENTRY"),
      create_message("assistant", UX_COPY["S1_INTENT"], "S1_INTENT")>>

\* update_judgments, lines 283-286: the contents of the user's messages
UserTexts(history) ==
    LET user(m) == m.role = "user"
        mine == SelectSeq(history, user)
    IN [i \in DOMAIN mine |-> mine[i].content]

PastIntake == {"S5_ASSUMPTIONS_CHECK", "S6_RUN_STEP0", "S7_CONFIRM_TYPE", "S8_RUN_STEP1_3", "S9_EXPORTS"}

\* chat_intake_step, lines 377-387: the timebox the step works with
StepTimebox(tb, user_message, cfg) ==
    IF Truthy(user_message) THEN register_turn(tb, FALSE, cfg) ELSE tb

\* chat_intake_step, lines 394-421: the state the step moves to
StepNewState(state, packet, tb, user_action, cfg) ==
    LET forced == IF reached_hard_stop(tb, cfg) /\ state \notin PastIntake /\ should_force_proceed(tb)
                  THEN "S5_ASSUMPTIONS_CHECK" ELSE None
        \* line 419 assigns new_state again, whatever line 398 had set
        new_state == determine_next_state(state, packet, user_action)
    IN new_state

chat_intake_step(history, packet, assumed, tb, state, user_message, user_action, cfg) ==
    LET new_chat_history ==
            IF Truthy(user_message) THEN Append(history, create_message("user", user_message, state))
            ELSE history
        tb1 == StepTimebox(tb, user_message, cfg)
        uj == update_judgments(UserTexts(new_chat_history), packet, None)
    IN IF reached_hard_stop(tb1, cfg) /\ state \notin PastIntake /\ ~should_force_proceed(tb1)
       THEN [new_state        |-> state,
             system_messages  |-> <<UX_COPY["HARD_STOP"]>>,
             intake_packet    |-> uj.intake_packet,
             assumptions      |-> uj.assumptions,
             open_questions   |-> uj.open_questions,
             should_run_step0 |-> FALSE,
             buttons          |-> HARD_STOP_BUTTONS]
       ELSE LET new_state == StepNewState(state, uj.intake_packet, tb1, user_action, cfg)
                tb2 == IF should_offer_fast_path(tb1, cfg)
                          /\ new_state \notin {"S5_ASSUMPTIONS_CHECK", "S6_RUN_STEP0"}
                       THEN mark_fast_path_offered(tb1) ELSE tb1
                response == generate_system_response(new_state, uj.intake_packet, uj.assumptions)
            IN [new_state        |-> new_state,
                system_messages  |-> response.messages,
                intake_packet    |-> uj.intake_packet,
                assumptions      |-> uj.assumptions,
                open_questions   |-> uj.open_questions,
                should_run_step0 |-> IF new_state = "S6_RUN_STEP0"
                                     THEN can_proceed_to_research(uj.intake_packet)[1] ELSE FALSE,
                buttons          |-> response.buttons]

\* handle_fix_assumption, lines 484-503: the field a statement is taken to be about
FixedField(statement) ==
    IF StatementHas("industry", statement) THEN "industry"
    ELSE IF StatementHas("jurisdiction", statement) THEN "jurisdiction"
    ELSE IF StatementHas("timeline", statement) THEN "timeline"
    ELSE IF StatementHas("org", statement) \/ StatementHas("size", statement) THEN "organization_size"
    ELSE None

handle_fix_assumption(assumption_id, new_value, packet, assumed) ==
    LET found == \E i \in DOMAIN assumed : assumed[i].id = assumption_id
        first == CHOOSE i \in DOMAIN assumed :
                    assumed[i].id = assumption_id /\ \A j \in DOMAIN assumed : assumed[j].id = assumption_id => i <= j
        changed_field == FixedField(assumed[first].statement)
        edited ==
            IF changed_field \in {"industry", "jurisdiction"}
            THEN Put(packet, changed_field, [value |-> new_value, confidence |-> "high", source |-> "user_edit"])
            ELSE IF changed_field \in {"timeline", "organization_size"}
            THEN Put(packet, changed_field,
                     Put(Put(Put(packet[changed_field], "raw", new_value), "source", "user_edit"),
                         "confidence", "high"))
            ELSE packet
        marked == [assumed EXCEPT ![first].status = "corrected"]
    IN IF ~found THEN [intake_packet |-> packet, assumptions |-> assumed]
       ELSE IF changed_field # None
       THEN LET uj == update_judgments(<<>>, edited, changed_field) IN
            [intake_packet |-> uj.intake_packet, assumptions |-> uj.assumptions]
       ELSE [intake_packet |-> edited, assumptions |-> marked]

(***************************************************************************)
(* modules/chat_llm_v2.py                                                  *)
(***************************************************************************)
\* get_chat_client: None without a key (langchain is taken to be installed)
get_chat_client(key) == IF key = "" THEN None ELSE "client"

\* What one call of the language model comes to:
\*   call_failed  client.invoke raises, _call_llm returns None
\*   unparseable  _parse_json finds no JSON in the text and returns None
\*   empty        the text parses to a falsy value, such as {}
\*   non_object   the text parses to a non-empty value that is no dict, such as [1]
\*   object       the text parses to the dict obj
Reply(kind, obj) == [kind |-> kind, obj |-> obj]

NoObject == [k \in {} |-> None]

\* `if extracted:` at the head of every handler
Extracted(llm) == llm.kind = "object" /\ DOMAIN llm.obj # {}

\* extracted.get(key) is a non-empty string
Has(llm, key) == Truthy(Get(llm.obj, key))

\* d.get(key, default)
GetOr(d, k, default) == IF k \in DOMAIN d THEN d[k] ELSE default

industry_keywords ==
    << <<"hospitality", <<"banquet", "banquets", "catering", "hotel", "hotels", "restaurant",
                          "event", "events", "wedding", "venue", "venues", "food service",
                          "hospitality", "reception", "ballroom", "dining">> >>,
       <<"healthcare", <<"medical", "hospital", "clinic", "patient", "health", "doctor",
                         "nurse", "healthcare", "clinical", "pharma", "pharmaceutical">> >>,
       <<"retail", <<"store", "stores", "shop", "retail", "merchandise", "ecommerce",
                     "shopping", "inventory", "pos", "point of sale">> >>,
       <<"finance", <<"bank", "banking", "financial", "investment", "trading", "loan",
                      "insurance", "fintech", "accounting", "payment">> >>,
       <<"manufacturing", <<"factory", "production", "assembly", "manufacturing",
                            "supply chain", "warehouse", "industrial">> >>,
       <<"technology", <<"software", "app", "platform", "saas", "tech", "developer",
                         "code", "api", "cloud", "data center">> >>,
       <<"education", <<"school", "university", "student", "teacher", "learning",
                        "education", "training", "course", "academic">> >>,
       <<"real_estate", <<"property", "real estate", "rental", "landlord", "tenant",
                          "building", "apartment", "housing">> >>,
       <<"logistics", <<"shipping", "delivery", "warehouse", "logistics", "freight",
                        "transport", "fleet", "courier">> >> >>

_detect_industry(text) ==
    LET matches == Matches(industry_keywords, <<text>>) IN
    IF Len(matches) > 0 THEN matches[1] ELSE None

mappings ==
    << <<"hospitality", "hospitality">>, <<"hotels", "hospitality">>, <<"restaurants", "hospitality">>,
       <<"events", "hospitality">>, <<"food", "hospitality">>, <<"catering", "hospitality">>,
       <<"healthcare", "healthcare">>, <<"medical", "healthcare">>, <<"health", "healthcare">>,
       <<"retail", "retail">>, <<"ecommerce", "retail">>, <<"finance", "finance">>,
       <<"banking", "finance">>, <<"financial", "finance">>, <<"manufacturing", "manufacturing">>,
       <<"industrial", "manufacturing">>, <<"technology", "technology">>, <<"tech", "technology">>,
       <<"software", "technology">>, <<"education", "education">>, <<"real estate", "real_estate">>,
       <<"property", "real_estate">>, <<"logistics", "logistics">>, <<"transportation", "logistics">>,
       <<"energy", "energy">> >>

\* The model's replies hold no surrounding blanks, so strip() changes nothing
_normalize_industry(industry) ==
    IF ~Truthy(industry) THEN None
    ELSE LET industry_lower == Lower(industry)
             exact(e) == e[1] = industry_lower
             partial(e) == KwIn(e[1], industry)
         IN IF SelectSeq(mappings, exact) # <<>> THEN SelectSeq(mappings, exact)[1][2]
            ELSE IF SelectSeq(mappings, partial) # <<>> THEN SelectSeq(mappings, partial)[1][2]
            ELSE industry_lower

_detect_opportunity(text) ==
    IF AnyKw(<<"revenue", "sales", "money", "profit", "income", "grow", "growth">>, <<text>>) THEN "revenue"
    ELSE IF AnyKw(<<"cost", "save", "efficient", "time", "reduce", "automate", "faster">>, <<text>>) THEN "cost"
    ELSE IF AnyKw(<<"risk", "compliance", "safety", "security", "audit", "regulation">>, <<text>>) THEN "risk"
    ELSE IF AnyKw(<<"transform", "change", "innovate", "disrupt", "new way", "reimagine">>, <<text>>) THEN "transform"
    ELSE None

locations ==
    << <<"US", <<"us", "usa", "united states", "america", "american">> >>,
       <<"UK", <<"uk", "united kingdom", "britain", "british", "england">> >>,
       <<"EU", <<"eu", "europe", "european", "germany", "france", "spain", "italy">> >>,
       <<"Canada", <<"canada", "canadian">> >>,
       <<"Australia", <<"australia", "australian">> >>,
       <<"Global", <<"global", "worldwide", "international", "multiple countries">> >>,
       <<"Asia", <<"asia", "asian", "china", "japan", "singapore", "india">> >> >>

us_regions ==
    << <<"US - Midwest", <<"midwest">> >>, <<"US - Northeast", <<"northeast">> >>,
       <<"US - Southeast", <<"southeast">> >>, <<"US - Southwest", <<"southwest">> >>,
       <<"US - West Coast", <<"west coast">> >>, <<"US - East Coast", <<"east coast">> >>,
       <<"US - California", <<"california">> >>, <<"US - Texas", <<"texas">> >>,
       <<"US - New York", <<"new york">> >>, <<"US - Florida", <<"florida">> >> >>

_detect_location(text) ==
    LET regions == Matches(us_regions, <<text>>)
        found == Matches(locations, <<text>>)
    IN IF Len(regions) > 0 THEN regions[1]
       ELSE IF Len(found) > 0 THEN found[1]
       ELSE None

\* re.findall(r'\d+', text), the numbers as integers
Numbers(text) == IF text \in DOMAIN NumbersTable THEN NumbersTable[text] ELSE <<>>

_detect_org_size(text) ==
    IF AnyKw(<<"startup", "small team", "just me", "few people", "under 50">>, <<text>>) THEN "small"
    ELSE IF AnyKw(<<"smb", "mid-size", "medium", "100 employees", "200 employees", "few hundred">>, <<text>>) THEN "medium"
    ELSE IF AnyKw(<<"large", "1000", "thousands", "multiple locations", "enterprise">>, <<text>>) THEN "large"
    ELSE IF AnyKw(<<"fortune 500", "10000", "global company", "multinational">>, <<text>>) THEN "enterprise"
    ELSE IF Len(Numbers(text)) > 0
    THEN LET num == Numbers(text)[1] IN
         IF num < 50 THEN "small" ELSE IF num < 500 THEN "medium"
         ELSE IF num < 5000 THEN "large" ELSE "enterprise"
    ELSE None

\* re.search(r'(\d+)\s*(week|month|quarter|year)s?', text): <<number, unit>>, or <<>>
TimeExpression(text) == IF text \in DOMAIN TimeTable THEN TimeTable[text] ELSE <<>>

\* The duration in weeks with a quarter counted as a month
WeeksOf_quarter_as_month(num, unit) ==
    CASE unit = "week" -> num
      [] unit = "month" -> 4 * num
      [] unit = "quarter" -> 4 * num
      [] unit = "year" -> 48 * num

\* The duration in weeks, a month counted as four: months = weeks * 0.25
WeeksOf(num, unit) ==
    CASE unit = "week" -> num
      [] unit = "month" -> 4 * num
      [] unit = "quarter" -> 12 * num
      [] unit = "year" -> 48 * num

_detect_timeline(text) ==
    IF AnyKw(<<"urgent", "asap", "immediately", "this week", "next week", "critical", "emergency">>, <<text>>)
    THEN "urgent"
    ELSE IF TimeExpression(text) # <<>>
    THEN LET weeks == WeeksOf(TimeExpression(text)[1], TimeExpression(text)[2]) IN
         IF weeks <= 4 THEN "urgent" ELSE IF weeks <= 24 THEN "near-term" ELSE "exploratory"
    ELSE IF KwIn("this month", text) THEN "urgent"
    ELSE IF KwIn("this quarter", text) \/ KwIn("next quarter", text) THEN "near-term"
    ELSE IF KwIn("this year", text) \/ KwIn("next year", text) THEN "exploratory"
    ELSE IF AnyKw(<<"soon", "pilot", "few months", "near-term", "q1", "q2", "q3", "q4">>, <<text>>)
    THEN "near-term"
    ELSE IF AnyKw(<<"exploring", "research", "looking into", "considering", "early stage",
                    "no rush", "eventually">>, <<text>>)
    THEN "exploratory"
    ELSE None

_infer_risk_from_industry(industry) ==
    LET industry_lower == IF Truthy(industry) THEN industry ELSE "" IN
    IF AnyKw(<<"healthcare", "finance", "pharmaceutical", "aviation", "nuclear">>, <<industry_lower>>) THEN "high"
    ELSE IF AnyKw(<<"hospitality", "retail", "manufacturing", "logistics", "education">>, <<industry_lower>>) THEN "medium"
    ELSE "low"

\* {**intake_packet} with the updates laid over it
Merged(packet, updates) ==
    [k \in DOMAIN packet \cup DOMAIN updates |-> IF k \in DOMAIN updates THEN updates[k] ELSE packet[k]]

_generate_assumptions(packet, updates) ==
    LET merged == Merged(packet, updates)
        flagged(key) ==
            LET data == IF key \in DOMAIN merged THEN merged[key] ELSE NoObject IN
            /\ Get(data, "confidence") = "low" \/ Get(data, "source") \in {"keyword_match", "industry_default"}
            /\ \/ key = "industry" /\ Truthy(Get(data, "value"))
               \/ key = "risk_posture" /\ Truthy(Get(data, "level"))
        keys == SelectSeq(<<"industry", "jurisdiction", "organization_size", "timeline", "risk_posture">>, flagged)
    IN [i \in DOMAIN keys |->
          IF keys[i] = "industry"
          THEN [statement  |-> Statement("Operating in the {value} industry", "", merged["industry"].value),
                confidence |-> Get(merged["industry"], "confidence"),
                impact     |-> "high"]
          ELSE [statement  |-> Statement("Risk level is {value} based on industry norms", "", merged["risk_posture"].level),
                confidence |-> "low",
                impact     |-> "medium"]]

Result(next_state, system_response, updates, assumed, debug_info) ==
    [next_state |-> next_state, system_response |-> system_response,
     intake_packet_updates |-> updates, assumptions |-> assumed, debug_info |-> debug_info]

\* The entries of debug_info the handlers set after the call
Debug(fallback_used, industry_override) ==
    [fallback_used |-> fallback_used, industry_override |-> industry_override]

\* The opening sentence of each text of RESPONSES
RESPONSES ==
    [S1_NEED_MORE |-> "I'd love to help, but I need a bit more detail. What specific problem are you trying to solve?",
     S2_OPPORTUNITY |-> "Got it! What would success look like for you? Are you mainly trying to:",
     S3_LOCATION |-> "Where does this operate? (country, region, or global)",
     S3_ORG_SIZE |-> "Roughly how big is your organization?",
     S3_TIMELINE |-> "What's your timeline? Are you:",
     S3_STAKEHOLDERS |-> "Who would use this day-to-day, and who needs to approve it?",
     S3_CONTEXT |-> "Where does this operate? (country, region, or global)",
     S4_INTEGRATION |-> "Will this agent need to connect to any existing systems?",
     S4_RISK |-> "Last question: If the agent made a mistake, what's the worst that could happen?"]

\* updates[key] = value when cond holds
Upd(cond, key, value) == IF cond THEN key :> value ELSE NoObject

_build_summary(packet, updates) ==
    LET merged == Merged(packet, updates)
        has(field, key) == Truthy(PGet(merged, field, key))
        part(cond, name) == IF cond THEN <<name>> ELSE <<>>
    IN Join(<<"Here's what I understood:">>
       \o part(has("use_case_intent", "value"), "use_case")
       \o part(has("opportunity_shape", "value"), "opportunity")
       \o part(has("jurisdiction", "value") \/ has("organization_size", "bucket"), "context")
       \o part(has("timeline", "bucket") \/ has("timeline", "raw"), "timeline")
       \o part(has("stakeholder_reality", "users") \/ has("stakeholder_reality", "approvers"), "stakeholders")
       \o part(Systems(merged) # <<>> \/ has("integration_surface", "user_description"), "integration")
       \o part(has("risk_posture", "level"), "risk")
       \o <<"Does this look right?">>)

_handle_intent_state(llm, user_message, packet) ==
    IF Extracted(llm)
    THEN LET llm_industry == _normalize_industry(Get(llm.obj, "industry"))
             keyword_industry == _detect_industry(user_message)
             override == keyword_industry # None /\ keyword_industry # llm_industry
             industry == IF override THEN keyword_industry
                         ELSE IF Truthy(llm_industry) THEN llm_industry ELSE keyword_industry
             confidence == IF override \/ Truthy(llm_industry) THEN "high"
                           ELSE IF keyword_industry # None THEN "med" ELSE "low"
             source == IF override THEN "keyword_override"
                       ELSE IF Truthy(llm_industry) THEN "llm_extracted"
                       ELSE IF keyword_industry # None THEN "keyword_match" ELSE "unknown"
             updates ==
                 Upd(Has(llm, "summary"), "use_case_intent",
                     [value |-> Get(llm.obj, "summary"), confidence |-> "high",
                      source |-> "llm_extracted", reasoning |-> GetOr(llm.obj, "reasoning", "")])
                 @@ Upd(Has(llm, "summary"), "use_case_synthesized", Get(llm.obj, "summary"))
                 @@ Upd(Has(llm, "industry") /\ Truthy(industry), "industry",
                        [value |-> industry, confidence |-> confidence, source |-> source])
             more == GetOr(llm.obj, "needs_more_info", FALSE)
         IN Result(IF more THEN "S1_INTENT" ELSE "S2_OPPORTUNITY",
                   IF more THEN RESPONSES["S1_NEED_MORE"] ELSE RESPONSES["S2_OPPORTUNITY"],
                   updates, <<>>,
                   Debug(FALSE, IF Has(llm, "industry") /\ override
                                THEN <<llm_industry, keyword_industry>> ELSE <<>>))
    ELSE LET industry == _detect_industry(user_message)
             updates ==
                 ("use_case_intent" :> [value |-> user_message, confidence |-> "low", source |-> "user_direct"])
                 @@ Upd(industry # None, "industry",
                        [value |-> industry, confidence |-> "med", source |-> "keyword_match"])
         IN Result("S2_OPPORTUNITY", RESPONSES["S2_OPPORTUNITY"], updates, <<>>, Debug(TRUE, <<>>))

_handle_opportunity_state(llm, user_message, packet) ==
    LET goal == IF Extracted(llm) THEN Lower(GetOr(llm.obj, "goal", "")) ELSE _detect_opportunity(user_message)
        updates ==
            IF Extracted(llm)
            THEN Upd(Has(llm, "goal") /\ goal \in {"revenue", "cost", "risk", "transform"}, "opportunity_shape",
                     [value |-> goal, confidence |-> "high", source |-> "llm_extracted",
                      reasoning |-> GetOr(llm.obj, "reasoning", "")])
            ELSE Upd(goal # None, "opportunity_shape",
                     [value |-> goal, confidence |-> "med", source |-> "keyword_match"])
    IN Result("S3_LOCATION", RESPONSES["S3_LOCATION"], updates, <<>>, Debug(~Extracted(llm), <<>>))

_handle_location_state(llm, user_message, packet) ==
    LET location == _detect_location(user_message)
        updates ==
            IF Extracted(llm)
            THEN Upd(Has(llm, "location"), "jurisdiction",
                     [value |-> Get(llm.obj, "location"), confidence |-> "high", source |-> "llm_extracted"])
            ELSE Upd(location # None, "jurisdiction",
                     [value |-> location, confidence |-> "med", source |-> "keyword_match"])
    IN Result("S3_ORG_SIZE", RESPONSES["S3_ORG_SIZE"], updates, <<>>, Debug(~Extracted(llm), <<>>))

_handle_org_size_state(llm, user_message, packet) ==
    LET org_size == _detect_org_size(user_message)
        updates ==
            IF Extracted(llm)
            THEN Upd(Has(llm, "org_size"), "organization_size",
                     [bucket |-> Get(llm.obj, "org_size"), employee_count |-> Get(llm.obj, "employee_count"),
                      confidence |-> "high", source |-> "llm_extracted"])
            ELSE Upd(org_size # None, "organization_size",
                     [bucket |-> org_size, confidence |-> "med", source |-> "keyword_match"])
    IN Result("S3_TIMELINE", RESPONSES["S3_TIMELINE"], updates, <<>>, Debug(~Extracted(llm), <<>>))

\* The timeline handler asking again when it has extracted no timeline
_handle_timeline_state_retry(llm, user_message, packet) ==
    LET timeline == _detect_timeline(user_message)
        updates ==
            IF Extracted(llm)
            THEN Upd(Has(llm, "timeline"), "timeline",
                     [bucket |-> Get(llm.obj, "timeline"), raw |-> GetOr(llm.obj, "raw_timeframe", user_message),
                      confidence |-> "high", source |-> "llm_extracted"])
            ELSE Upd(timeline # None, "timeline",
                     [bucket |-> timeline, raw |-> user_message, confidence |-> "med", source |-> "keyword_match"])
    IN IF updates = NoObject
       THEN Result("S3_TIMELINE", RESPONSES["S3_TIMELINE"], updates, <<>>, Debug(~Extracted(llm), <<>>))
       ELSE Result("S3_STAKEHOLDERS", RESPONSES["S3_STAKEHOLDERS"], updates, <<>>, Debug(~Extracted(llm), <<>>))

_handle_timeline_state(llm, user_message, packet) ==
    LET timeline == _detect_timeline(user_message)
        updates ==
            IF Extracted(llm)
            THEN Upd(Has(llm, "timeline"), "timeline",
                     [bucket |-> Get(llm.obj, "timeline"), raw |-> GetOr(llm.obj, "raw_timeframe", user_message),
                      confidence |-> "high", source |-> "llm_extracted"])
            ELSE Upd(timeline # None, "timeline",
                     [bucket |-> timeline, raw |-> user_message, confidence |-> "med", source |-> "keyword_match"])
    IN Result("S3_STAKEHOLDERS", RESPONSES["S3_STAKEHOLDERS"], updates, <<>>, Debug(~Extracted(llm), <<>>))

_handle_stakeholders_state(llm, user_message, packet) ==
    LET updates ==
            Upd(Extracted(llm) /\ (Has(llm, "users") \/ Has(llm, "approvers")), "stakeholder_reality",
                [users |-> Get(llm.obj, "users"), approvers |-> Get(llm.obj, "approvers"),
                 confidence |-> "high", source |-> "llm_extracted",
                 reasoning |-> GetOr(llm.obj, "reasoning", "")])
    IN Result("S4_INTEGRATION", RESPONSES["S4_INTEGRATION"], updates, <<>>, Debug(FALSE, <<>>))

system_keywords ==
    << <<"CRM", <<"crm">> >>, <<"ERP", <<"erp">> >>, <<"SAP", <<"sap">> >>,
       <<"Salesforce", <<"salesforce">> >>, <<"Oracle", <<"oracle">> >>, <<"Database", <<"database">> >>,
       <<"API", <<"api">> >>, <<"Scada", <<"scada">> >>, <<"PLC", <<"plc">> >>, <<"Sensor", <<"sensor">> >>,
       <<"Calendar", <<"calendar">> >>, <<"Slack", <<"slack">> >>, <<"Teams", <<"teams">> >>,
       <<"Email", <<"email">> >>, <<"Payment", <<"payment">> >>, <<"Stripe", <<"stripe">> >>,
       <<"Square", <<"square">> >>, <<"Inventory", <<"inventory">> >>, <<"POS", <<"pos">> >>,
       <<"Warehouse", <<"warehouse">> >> >>

\* The handler makes no call of the language model
_handle_integration_state(llm, user_message, packet) ==
    LET systems == Matches(system_keywords, <<user_message>>)
        updates ==
            Upd(systems # <<>> \/ Len(user_message) > 10, "integration_surface",
                [systems |-> IF systems # <<>> THEN systems ELSE <<"custom systems mentioned">>,
                 user_description |-> user_message,
                 confidence |-> IF systems # <<>> THEN "high" ELSE "med",
                 source |-> IF systems # <<>> THEN "keyword_match" ELSE "user_direct"])
    IN Result("S4_RISK", RESPONSES["S4_RISK"], updates, <<>>, Debug(FALSE, <<>>))

_handle_risk_state(llm, user_message, packet) ==
    LET industry == PGet(packet, "industry", "value")
        risk == IF Extracted(llm) THEN Lower(GetOr(llm.obj, "risk_level", ""))
                ELSE _infer_risk_from_industry(industry)
        updates ==
            IF Extracted(llm)
            THEN Upd(Has(llm, "risk_level") /\ risk \in {"low", "medium", "high"}, "risk_posture",
                     [level |-> risk, confidence |-> "med", source |-> "llm_extracted",
                      reason |-> GetOr(llm.obj, "reason", ""), reasoning |-> GetOr(llm.obj, "reasoning", "")])
            ELSE "risk_posture" :> [level |-> risk, confidence |-> "low", source |-> "industry_default"]
    IN Result("S5_ASSUMPTIONS_CHECK", _build_summary(packet, updates), updates,
              _generate_assumptions(packet, updates), Debug(~Extracted(llm), <<>>))

_handle_assumptions_state(user_message, packet) ==
    Result("S6_RUN_STEP0", "Great, I have what I need. Starting the analysis now...",
           NoObject, <<>>, Debug(FALSE, <<>>))

state_order ==
    <<"S1_INTENT", "S2_OPPORTUNITY", "S3_LOCATION", "S3_ORG_SIZE", "S3_TIMELINE", "S3_STAKEHOLDERS",
      "S4_INTEGRATION", "S4_RISK", "S5_ASSUMPTIONS_CHECK">>

_keyword_fallback(state, user_message, packet) ==
    LET industry == _detect_industry(user_message)
        goal == _detect_opportunity(user_message)
        location == _detect_location(user_message)
        org_size == _detect_org_size(user_message)
        timeline == _detect_timeline(user_message)
        idx == CHOOSE i \in DOMAIN state_order : state_order[i] = state
        next_state == IF ~InSeq(state, state_order) THEN "S2_OPPORTUNITY"
                      ELSE IF idx < Len(state_order) THEN state_order[idx + 1] ELSE state
        debug_info == Debug(TRUE, <<>>)
    IN CASE state \in {"S0_ENTRY", "S1_INTENT"} ->
              Result("S2_OPPORTUNITY", RESPONSES["S2_OPPORTUNITY"],
                     ("use_case_intent" :> [value |-> user_message, confidence |-> "low", source |-> "user_direct"])
                     @@ Upd(industry # None, "industry",
                            [value |-> industry, confidence |-> "med", source |-> "keyword_match"]),
                     <<>>, debug_info)
         [] state = "S2_OPPORTUNITY" ->
              Result("S3_LOCATION", RESPONSES["S3_LOCATION"],
                     Upd(goal # None, "opportunity_shape",
                         [value |-> goal, confidence |-> "low", source |-> "keyword_match"]),
                     <<>>, debug_info)
         [] state \in {"S3_CONTEXT", "S3_LOCATION"} ->
              Result("S3_ORG_SIZE", RESPONSES["S3_ORG_SIZE"],
                     Upd(location # None, "jurisdiction",
                         [value |-> location, confidence |-> "med", source |-> "keyword_match"]),
                     <<>>, debug_info)
         [] state = "S3_ORG_SIZE" ->
              Result("S3_TIMELINE", RESPONSES["S3_TIMELINE"],
                     Upd(org_size # None, "organization_size",
                         [bucket |-> org_size, confidence |-> "med", source |-> "keyword_match"]),
                     <<>>, debug_info)
         [] state = "S3_TIMELINE" ->
              Result("S3_STAKEHOLDERS", RESPONSES["S3_STAKEHOLDERS"],
                     Upd(timeline # None, "timeline",
                         [bucket |-> timeline, confidence |-> "med", source |-> "keyword_match"]),
                     <<>>, debug_info)
         [] state = "S3_STAKEHOLDERS" ->
              Result("S4_INTEGRATION", RESPONSES["S4_INTEGRATION"], NoObject, <<>>, debug_info)
         [] OTHER ->
              Result(next_state,
                     IF next_state \in DOMAIN RESPONSES THEN RESPONSES[next_state] ELSE "Tell me more.",
                     NoObject, <<>>, debug_info)

\* A reply that is no dict makes the handler's extracted.get raise; process_state
\* catches it and falls back.  The integration and the assumptions handlers read no reply.
\* process_state without the try/except of lines 312-338: the handler's AttributeError
\* on a reply that is no dict leaves the call
process_state_uncaught(state, user_message, packet, key, llm) ==
    IF get_chat_client(key) = None THEN _keyword_fallback(state, user_message, packet)
    ELSE IF state = "S4_INTEGRATION" THEN _handle_integration_state(llm, user_message, packet)
    ELSE IF state = "S5_ASSUMPTIONS_CHECK" THEN _handle_assumptions_state(user_message, packet)
    ELSE IF llm.kind = "non_object" THEN [raised |-> "AttributeError"]
    ELSE IF state \in {"S0_ENTRY", "S1_INTENT"} THEN _handle_intent_state(llm, user_message, packet)
    ELSE IF state = "S2_OPPORTUNITY" THEN _handle_opportunity_state(llm, user_message, packet)
    ELSE IF state \in {"S3_CONTEXT", "S3_LOCATION"} THEN _handle_location_state(llm, user_message, packet)
    ELSE IF state = "S3_ORG_SIZE" THEN _handle_org_size_state(llm, user_message, packet)
    ELSE IF state = "S3_TIMELINE" THEN _handle_timeline_state(llm, user_message, packet)
    ELSE IF state = "S3_STAKEHOLDERS" THEN _handle_stakeholders_state(llm, user_message, packet)
    ELSE IF state \in {"S4_INTEGRATION_RISK", "S4_RISK"} THEN _handle_risk_state(llm, user_message, packet)
    ELSE _handle_intent_state(llm, user_message, packet)

process_state(state, user_message, packet, key, llm) ==
    IF get_chat_client(key) = None THEN _keyword_fallback(state, user_message, packet)
    ELSE IF state = "S4_INTEGRATION" THEN _handle_integration_state(llm, user_message, packet)
    ELSE IF state = "S5_ASSUMPTIONS_CHECK" THEN _handle_assumptions_state(user_message, packet)
    ELSE IF llm.kind = "non_object" THEN _keyword_fallback(state, user_message, packet)
    ELSE IF state \in {"S0_ENTRY", "S1_INTENT"} THEN _handle_intent_state(llm, user_message, packet)
    ELSE IF state = "S2_OPPORTUNITY" THEN _handle_opportunity_state(llm, user_message, packet)
    ELSE IF state \in {"S3_CONTEXT", "S3_LOCATION"} THEN _handle_location_state(llm, user_message, packet)
    ELSE IF state = "S3_ORG_SIZE" THEN _handle_org_size_state(llm, user_message, packet)
    ELSE IF state = "S3_TIMELINE" THEN _handle_timeline_state(llm, user_message, packet)
    ELSE IF state = "S3_STAKEHOLDERS" THEN _handle_stakeholders_state(llm, user_message, packet)
    ELSE IF state \in {"S4_INTEGRATION_RISK", "S4_RISK"} THEN _handle_risk_state(llm, user_message, packet)
    ELSE _handle_intent_state(llm, user_message, packet)

(***************************************************************************)
(* modules/context_handoff.py                                              *)
(***************************************************************************)
ContextBlock(stage, user_verbatim, facts, reasoning, open_questions, confidence) ==
    [stage |-> stage, user_verbatim |-> user_verbatim, facts |-> facts, reasoning |-> reasoning,
     open_questions |-> open_questions, confidence |-> confidence]

\* ContextHandoff(session_id, created_at) with the defaults of its fields
create_context_handoff ==
    [narrative |-> "", blocks |-> <<>>, themes |-> <<>>, golden_thread |-> "",
     constraints |-> <<>>, tensions |-> <<>>]

\* facts.get("constraints", []), a single string taken as the list of it
ConstraintsOf(facts) == IF "constraints" \in DOMAIN facts THEN facts["constraints"] ELSE <<>>

add_block(h, block) ==
    LET tense(q) == KwIn("conflict", q) \/ KwIn("tension", q) IN
    [h EXCEPT
       !.blocks = Append(@, block),
       !.golden_thread = IF block.stage \in {"S0_ENTRY", "S1_INTENT"} /\ @ = ""
                         THEN block.user_verbatim ELSE @,
       !.constraints = IF KwIn("boundary", block.stage) \/ ConstraintsOf(block.facts) # <<>>
                       THEN @ \o ConstraintsOf(block.facts) ELSE @,
       !.tensions = @ \o SelectSeq(block.open_questions, tense)]

\* The time of day in the entry's head is left out
update_narrative(h, new_content, stage) ==
    LET entry == "[" \o stage \o "] " \o new_content IN
    [h EXCEPT !.narrative = IF @ # "" THEN @ \o NL \o NL \o entry ELSE entry]

add_theme(h, theme) ==
    [h EXCEPT !.themes = IF InSeq(theme, @) THEN @ ELSE Append(@, theme)]

record_stage_output(h, stage, user_message, extracted_facts, reasoning, open_questions, confidence) ==
    LET block == ContextBlock(stage, user_message, extracted_facts, reasoning, open_questions, confidence)
        added == add_block(h, block)
    IN IF reasoning # "" THEN update_narrative(added, reasoning, stage) ELSE added

(***************************************************************************)
(* app.py: the session and its handlers                                    *)
(***************************************************************************)
\* What an operation was given and what it gave back
Last(op, user_message, user_action, system_messages, open_questions, should_run_step0, debug_info) ==
    [op |-> op, user_message |-> user_message, user_action |-> user_action,
     system_messages |-> system_messages, open_questions |-> open_questions,
     should_run_step0 |-> should_run_step0, debug_info |-> debug_info,
     assumption_id |-> 0, new_value |-> None]

NoOperation == Last("none", None, None, <<>>, <<>>, FALSE, Debug(FALSE, <<>>))

\* main, line 1346: the chat is shown in these states only
ChatShown(state) == state \notin {"S6_RUN_STEP0", "S7_CONFIRM_TYPE", "S8_RUN_STEP1_3", "S9_EXPORTS"}

\* handle_chat_message, lines 1044-1053: the result's assumptions, numbered on
Numbered(assumed, added) ==
    assumed \o [i \in DOMAIN added |->
                  [id |-> Len(assumed) + i,
                   statement |-> added[i].statement,
                   confidence |-> added[i].confidence,
                   impact |-> added[i].impact,
                   needs_confirmation |-> added[i].confidence = "low",
                   status |-> "assumed"]]

\* get_api_key: the key of the session, or that of the environment
get_api_key == api_key

handle_chat_message(message, llm) ==
    \E result \in {process_state(current_state, message, intake_packet, get_api_key, llm)} :
    LET new_state == result.next_state
        asked == Append(chat_history, create_message("user", message, current_state))
    IN /\ intake_packet' = Merged(intake_packet, result.intake_packet_updates)
       /\ assumptions' = Numbered(assumptions, result.assumptions)
       /\ chat_history' = IF Truthy(result.system_response)
                          THEN Append(asked, create_message("assistant", result.system_response, new_state))
                          ELSE asked
       /\ current_state' = new_state
       /\ chat_buttons' = IF new_state = "S5_ASSUMPTIONS_CHECK" THEN CHECKPOINT_BUTTONS ELSE NoButtons
       /\ timebox' = register_turn(timebox, FALSE, config)
       /\ last' = Last("handle_chat_message", message, "message", <<result.system_response>>,
                       <<>>, new_state = "S6_RUN_STEP0", result.debug_info)

handle_fast_path ==
    /\ timebox' = mark_fast_path_offered(timebox)
    /\ chat_history' = chat_history
                       \o <<create_message("user", "Just run it.", current_state),
                            create_message("assistant", "Got it! Proceeding with current assumptions.",
                                           current_state)>>
    /\ current_state' = "S6_RUN_STEP0"
    /\ last' = Last("handle_fast_path", None, "fast_path",
                    <<"Got it! Proceeding with current assumptions.">>, <<>>, TRUE, Debug(FALSE, <<>>))
    /\ UNCHANGED <<intake_packet, assumptions, chat_buttons>>

\* get_most_important_question
get_most_important_question(packet, assumed) ==
    LET missing == can_proceed_to_research(packet)[2]
        doubtful(a) == a.confidence = "low" /\ a.impact = "high"
        named(cj) == cj.id = missing[1]
    IN IF missing # <<>>
       THEN "What's the " \o Lower(SelectSeq(CORE_JUDGMENTS, named)[1].name) \o " for this use case?"
       \* the statement of the assumption is left out of the text
       ELSE IF SelectSeq(assumed, doubtful) # <<>> THEN "I assumed that. Is that right?"
       ELSE "Is there anything else important I should know before we proceed?"

handle_chat_action(action) ==
    CASE action = "fast_path" -> handle_fast_path
      [] action = "confirm_proceed" ->
           /\ current_state' = "S6_RUN_STEP0"
           /\ last' = Last("handle_chat_action", None, action, <<>>, <<>>, TRUE, Debug(FALSE, <<>>))
           /\ UNCHANGED <<intake_packet, assumptions, timebox, chat_history, chat_buttons>>
      [] action = "fix_assumption" ->
           /\ chat_history' = Append(chat_history,
                                     create_message("assistant", "Which assumption would you like to correct?",
                                                    current_state))
           /\ chat_buttons' = NoButtons
           /\ last' = Last("handle_chat_action", None, action,
                           <<"Which assumption would you like to correct?">>, <<>>, FALSE, Debug(FALSE, <<>>))
           /\ UNCHANGED <<current_state, intake_packet, assumptions, timebox>>
      [] action = "ask_question" ->
           LET question == get_most_important_question(intake_packet, assumptions) IN
           /\ chat_history' = Append(chat_history, create_message("assistant", question, current_state))
           /\ chat_buttons' = NoButtons
           /\ last' = Last("handle_chat_action", None, action, <<question>>, <<>>, FALSE, Debug(FALSE, <<>>))
           /\ UNCHANGED <<current_state, intake_packet, assumptions, timebox>>
      [] action = "start_over" ->
           /\ chat_history' = get_initial_messages
           /\ current_state' = "S0_ENTRY"
           /\ intake_packet' = init_intake_packet
           /\ assumptions' = <<>>
           /\ timebox' = init_timebox
           /\ chat_buttons' = NoButtons
           /\ last' = Last("handle_chat_action", None, action, <<>>, <<>>, FALSE, Debug(FALSE, <<>>))
      [] OTHER -> UNCHANGED session

(***************************************************************************)
(* The sessions of one server process, and modules/trace_log.py            *)
(***************************************************************************)
\* The sessions that run in the process
SessionIds == {"a", "b"}

\* initialize_session_state: the chat-first state of a new session, and the context
\* handoff the session creates with create_context_handoff(session_id)
initialize_session_state ==
    [current_state |-> "S1_INTENT",
     intake_packet |-> init_intake_packet,
     timebox |-> init_timebox,
     handoff |-> create_context_handoff]

\* _current_logger = None: no logger, written as a logger of no session
NoLogger == [session_id |-> None, entries |-> <<>>]

\* TraceLogger(session_id): a logger with the empty TraceSession of the session
TraceLogger(session_id) == [session_id |-> session_id, entries |-> <<>>]

\* get_trace_logger(session_id): the logger returned, which is the module's
\* _current_logger after the call
get_trace_logger(logger, session_id) ==
    IF session_id # None /\ (logger = NoLogger \/ logger.session_id # session_id)
    THEN TraceLogger(session_id)
    ELSE logger

init_trace_logger(session_id) == TraceLogger(session_id)

\* TraceLogger.log_state_transition, the time of the entry left out
log_state_transition(logger, from_state, to_state) ==
    [logger EXCEPT !.entries = Append(@, [event_type |-> "state_transition", state |-> from_state,
                                          from_state |-> from_state, to_state |-> to_state])]

(***************************************************************************)
(* Bounds                                                                  *)
(***************************************************************************)
\* What the user types
Messages ==
    {"hi",
     "our hospital in the usa wants to reduce cost",
     "our hospital and its insurance desk want to cut no-shows",
     "We run banquet halls and want to predict catering demand"}

\* What the user answers in the chat of the app, by the state that asks
AnswersAt(state) ==
    CASE state \in {"S0_ENTRY", "S1_INTENT"} ->
              {"hi", "We run banquet halls and want to predict catering demand"}
      [] state \in {"S2_OPPORTUNITY", "S3_CONTEXT", "S3_LOCATION", "S4_INTEGRATION"} ->
              {"our hospital in the usa wants to reduce cost"}
      [] state = "S3_ORG_SIZE" -> {"about 200 employees"}
      [] state = "S3_TIMELINE" -> {"we need a pilot in 6 weeks"}
      [] OTHER -> {"hi"}

\* The JSON objects the language model answers with, by the state that asks
IntentObjects ==
    {[summary |-> "Predict catering demand for banquet halls", industry |-> i, needs_more_info |-> FALSE] :
        i \in {None, "events", "energy"}}
    \cup {[summary |-> None, industry |-> None, needs_more_info |-> m] : m \in BOOLEAN}
    \cup {[summary |-> "Predict catering demand for banquet halls", industry |-> "energy",
           needs_more_info |-> TRUE]}

OpportunityObjects == {[goal |-> g] : g \in {"revenue", "Growth"}}

LocationObjects == {[location |-> "Canada"]}

OrgSizeObjects == {[org_size |-> "large", employee_count |-> None]}

TimelineObjects == {[timeline |-> "urgent"]}

StakeholderObjects == {[users |-> "maintenance team", approvers |-> "VP of Operations"]}

RiskObjects == {[risk_level |-> r, reason |-> ""] : r \in {"High", "extreme"}}

ObjectsAt(state) ==
    CASE state \in {"S0_ENTRY", "S1_INTENT"} -> IntentObjects
      [] state = "S2_OPPORTUNITY" -> OpportunityObjects
      [] state \in {"S3_CONTEXT", "S3_LOCATION"} -> LocationObjects
      [] state = "S3_ORG_SIZE" -> OrgSizeObjects
      [] state = "S3_TIMELINE" -> TimelineObjects
      [] state = "S3_STAKEHOLDERS" -> StakeholderObjects
      [] state \in {"S4_INTEGRATION_RISK", "S4_RISK"} -> RiskObjects
      [] OTHER -> {}

FailedReplies == {Reply(k, NoObject) : k \in {"call_failed", "unparseable", "empty", "non_object"}}

\* The model asks for more detail at most MaxMore times in a conversation
MaxMore == 2

Replies(state, turns) ==
    LET allowed(o) == "needs_more_info" \in DOMAIN o /\ o["needs_more_info"] => turns < MaxMore IN
    FailedReplies \cup {Reply("object", o) : o \in {x \in ObjectsAt(state) : allowed(x)}}

\* The turns a session registers
MaxTurns == 10

\* The values a correction gives
NewValues == {"retail"}

(***************************************************************************)
(* The session of app.py                                                   *)
(***************************************************************************)
\* load_config: the "timebox" section of config.yaml, with the limits the
\* specification document gives for it
load_config == [default_turns |-> 10, hard_cap_turns |-> 18, hard_questions_max |-> 4]

Init ==
    /\ current_state = "S1_INTENT"
    /\ intake_packet = init_intake_packet
    /\ assumptions = <<>>
    /\ timebox = init_timebox
    /\ chat_history = get_initial_messages
    /\ chat_buttons = NoButtons
    /\ api_key \in {"", "sk-ant-key"}
    /\ last = NoOperation
    /\ handoff = create_context_handoff
    /\ config = load_config
    /\ session_state = [s \in SessionIds |-> initialize_session_state]
    /\ _current_logger = NoLogger

HandleChatMessage ==
    /\ ChatShown(current_state)
    /\ timebox.turns < MaxTurns
    /\ \E message \in AnswersAt(current_state), llm \in Replies(current_state, timebox.turns) :
          handle_chat_message(message, llm)
    /\ UNCHANGED <<api_key, handoff, config, session_state, _current_logger>>

HandleChatAction ==
    /\ ChatShown(current_state)
    /\ \E i \in DOMAIN chat_buttons : handle_chat_action(chat_buttons[i])
    /\ UNCHANGED <<api_key, handoff, config, session_state, _current_logger>>

\* The button of the sidebar
HandleFastPath ==
    /\ ChatShown(current_state)
    /\ current_state # "S5_ASSUMPTIONS_CHECK"
    /\ handle_fast_path
    /\ UNCHANGED <<api_key, handoff, config, session_state, _current_logger>>

Next == HandleChatMessage \/ HandleChatAction \/ HandleFastPath

Spec == Init /\ [][Next]_vars

(***************************************************************************)
(* A session driven by chat_intake_step.  The step returns neither the     *)
(* history nor the timebox it worked with, so the session keeps both the   *)
(* way handle_chat_message does: the user's message appended (app.py line  *)
(* 1021), the turn registered (line 1085).                                 *)
(***************************************************************************)
\* The user says something the extractors can use in the first MaxTold turns only
MaxTold == 1

\* The turns a session driven by chat_intake_step registers
MaxIntakeTurns == 21

Told(turns) == IF turns < MaxTold THEN Messages ELSE {"hi"}

\* A typed message, or a button (a button carries no message)
Inputs(turns) ==
    {<<m, "message">> : m \in Told(turns)}
    \cup {<<None, a>> : a \in {"message", "fast_path", "confirm_proceed", "start_over"}}

ChatIntakeStep ==
    \E input \in Inputs(timebox.turns) :
       LET user_message == input[1]
           user_action == input[2]
       IN \E result \in {chat_intake_step(chat_history, intake_packet, assumptions, timebox,
                                          current_state, user_message, user_action, config)} :
          /\ Truthy(user_message) => timebox.turns < MaxIntakeTurns
          /\ current_state' = result.new_state
          /\ intake_packet' = result.intake_packet
          /\ assumptions' = result.assumptions
          /\ chat_buttons' = result.buttons
          /\ chat_history' = IF Truthy(user_message)
                             THEN Append(chat_history, create_message("user", user_message, current_state))
                             ELSE chat_history
          /\ timebox' = StepTimebox(timebox, user_message, config)
          /\ last' = Last("chat_intake_step", user_message, user_action, result.system_messages,
                          result.open_questions, result.should_run_step0, Debug(FALSE, <<>>))
          /\ UNCHANGED <<api_key, handoff, config, session_state, _current_logger>>

\* The corrections a session sees
MaxFixes == 1

\* The fields a correction has set, and the assumptions one has marked
Fixes ==
    Cardinality({f \in DOMAIN intake_packet : IsDict(f) /\ Get(intake_packet[f], "source") = "user_edit"})
    + Cardinality({i \in DOMAIN assumptions : assumptions[i].status = "corrected"})

\* A correction of an assumption of the list, or of one that is not in it
HandleFixAssumption ==
    /\ assumptions # <<>>
    /\ Fixes < MaxFixes
    /\ \E assumption_id \in 1..(Len(assumptions) + 1), new_value \in NewValues :
          \E result \in {handle_fix_assumption(assumption_id, new_value, intake_packet, assumptions)} :
          /\ intake_packet' = result.intake_packet
          /\ assumptions' = result.assumptions
          /\ last' = [Last("handle_fix_assumption", None, "fix_assumption", <<>>, <<>>, FALSE, Debug(FALSE, <<>>))
                        EXCEPT !.assumption_id = assumption_id, !.new_value = new_value]
    /\ UNCHANGED <<current_state, timebox, chat_history, chat_buttons, api_key, handoff, config, session_state, _current_logger>>

NextIntake == ChatIntakeStep \/ HandleFixAssumption

InitIntake == Init /\ api_key = ""

SpecIntake == InitIntake /\ [][NextIntake]_vars

(***************************************************************************)
(* A context handoff and the stage outputs recorded into it                *)
(***************************************************************************)
\* The blocks a handoff holds
MaxBlocks == 2

\* The narrative is added to while it is shorter than this
MaxNarrative == 20

HandoffStages == {"S0_ENTRY", "S1_INTENT", "S4_BOUNDARY"}

\* What the user said at a stage: nothing, a greeting, a description of the goal
Verbatims == {"", "hi", "our hospital in the usa wants to reduce cost"}

\* What a stage extracted: nothing, or facts, a reasoning and an open question
Extractions ==
    {[facts |-> <<>>, reasoning |-> "", open_questions |-> <<>>],
     [facts |-> [constraints |-> <<"no customer data leaves the EU">>],
      reasoning |-> "Who signs off?",
      open_questions |-> <<"Does the timeline conflict with the budget?">>]}

Themes == {"cost", "risk"}

RecordStageOutput ==
    /\ Len(handoff.blocks) < MaxBlocks
    /\ \E stage \in HandoffStages, user_message \in Verbatims, x \in Extractions :
          /\ handoff' = record_stage_output(handoff, stage, user_message, x.facts, x.reasoning,
                                            x.open_questions, "medium")
          /\ last' = Last("record_stage_output", user_message, None, <<>>, x.open_questions, FALSE,
                          Debug(FALSE, <<>>))
    /\ UNCHANGED <<current_state, intake_packet, assumptions, timebox, chat_history, chat_buttons, api_key, config, session_state, _current_logger>>

UpdateNarrative ==
    /\ Len(handoff.narrative) < MaxNarrative
    /\ \E stage \in HandoffStages :
          /\ handoff' = update_narrative(handoff, "Who signs off?", stage)
          /\ last' = Last("update_narrative", None, None, <<>>, <<>>, FALSE, Debug(FALSE, <<>>))
    /\ UNCHANGED <<current_state, intake_packet, assumptions, timebox, chat_history, chat_buttons, api_key, config, session_state, _current_logger>>

AddTheme ==
    /\ \E theme \in Themes : handoff' = add_theme(handoff, theme)
    /\ last' = Last("add_theme", None, None, <<>>, <<>>, FALSE, Debug(FALSE, <<>>))
    /\ UNCHANGED <<current_state, intake_packet, assumptions, timebox, chat_history, chat_buttons, api_key, config, session_state, _current_logger>>

NextHandoff == RecordStageOutput \/ UpdateNarrative \/ AddTheme

InitHandoff == Init /\ api_key = ""

SpecHandoff == InitHandoff /\ [][NextHandoff]_vars

(***************************************************************************)
(* The timebox of a session on its own: every sequence of register_turn    *)
(* and mark_fast_path_offered calls, under a configuration that is fixed   *)
(* for the session.                                                        *)
(***************************************************************************)
\* The turns such a session registers
MaxTimeboxTurns == 20

\* The "timebox" sections a session is configured with; a limit is a positive number
Configs ==
    {NoConfig,
     load_config,
     [hard_cap_turns |-> 3],
     [default_turns |-> 2, hard_questions_max |-> 2],
     [default_turns |-> 5, hard_cap_turns |-> 6, hard_questions_max |-> 1]}

InitTimebox ==
    /\ current_state = "S1_INTENT"
    /\ intake_packet = init_intake_packet
    /\ assumptions = <<>>
    /\ timebox = init_timebox
    /\ chat_history = get_initial_messages
    /\ chat_buttons = NoButtons
    /\ api_key = ""
    /\ last = NoOperation
    /\ handoff = create_context_handoff
    /\ config \in Configs
    /\ session_state = [s \in SessionIds |-> initialize_session_state]
    /\ _current_logger = NoLogger

RegisterTurn ==
    /\ timebox.turns < MaxTimeboxTurns
    /\ \E is_hard_question \in BOOLEAN :
          /\ timebox' = register_turn(timebox, is_hard_question, config)
          /\ last' = [op |-> "register_turn", is_hard_question |-> is_hard_question]
    /\ UNCHANGED <<current_state, intake_packet, assumptions, chat_history, chat_buttons,
                   api_key, handoff, config, session_state, _current_logger>>

MarkFastPathOffered ==
    /\ timebox' = mark_fast_path_offered(timebox)
    /\ last' = [op |-> "mark_fast_path_offered", is_hard_question |-> FALSE]
    /\ UNCHANGED <<current_state, intake_packet, assumptions, chat_history, chat_buttons,
                   api_key, handoff, config, session_state, _current_logger>>

NextTimebox == RegisterTurn \/ MarkFastPathOffered

SpecTimebox == InitTimebox /\ [][NextTimebox]_vars

(***************************************************************************)
(* update_judgments applied to the packets of a session of the app: the    *)
(* per-state extractor fills the packet, turn by turn, without a language  *)
(* model, and update_judgments is run on the packet and on the user's      *)
(* messages so far.                                                        *)
(***************************************************************************)
UpdateJudgments ==
    /\ last.op # "update_judgments"
    /\ \E result \in {update_judgments(UserTexts(chat_history), intake_packet, None)} :
          /\ intake_packet' = result.intake_packet
          /\ assumptions' = result.assumptions
          /\ last' = Last("update_judgments", None, None, <<>>, result.open_questions, FALSE,
                          Debug(FALSE, <<>>))
    /\ UNCHANGED <<current_state, timebox, chat_history, chat_buttons, api_key, handoff, config, session_state, _current_logger>>

NextDerive == HandleChatMessage \/ HandleChatAction \/ UpdateJudgments

InitDerive == Init /\ api_key = ""

SpecDerive == InitDerive /\ [][NextDerive]_vars

(***************************************************************************)
(* Two sessions of one server process, their turns interleaved             *)
(***************************************************************************)
\* The messages a session sends
MaxSessionTurns == 2

\* The entries a trace holds
MaxEntries == 2

\* handle_chat_message run for a session without a key, on the session's own state
SessionMessage(s) ==
    /\ session_state[s].timebox.turns < MaxSessionTurns
    /\ \E message \in AnswersAt(session_state[s].current_state) :
       \E result \in {process_state(session_state[s].current_state, message,
                                    session_state[s].intake_packet, "", [kind |-> "call_failed"])} :
          /\ session_state' =
                [session_state EXCEPT
                   ![s].intake_packet = Merged(@, result.intake_packet_updates),
                   ![s].current_state = result.next_state,
                   ![s].timebox = register_turn(@, FALSE, config)]
          /\ last' = [op |-> "handle_chat_message", session_id |-> s]
    /\ UNCHANGED <<current_state, intake_packet, assumptions, timebox, chat_history, chat_buttons,
                   api_key, handoff, config, _current_logger>>

\* A theme added to the session's context handoff
SessionAddTheme(s) ==
    /\ \E theme \in Themes :
          session_state' = [session_state EXCEPT ![s].handoff = add_theme(@, theme)]
    /\ last' = [op |-> "add_theme", session_id |-> s]
    /\ UNCHANGED <<current_state, intake_packet, assumptions, timebox, chat_history, chat_buttons,
                   api_key, handoff, config, _current_logger>>

\* get_trace_logger(session_id) called for a session
GetTraceLogger(s) ==
    /\ _current_logger' = get_trace_logger(_current_logger, s)
    /\ last' = [op |-> "get_trace_logger", session_id |-> s]
    /\ UNCHANGED <<current_state, intake_packet, assumptions, timebox, chat_history, chat_buttons,
                   api_key, handoff, config, session_state>>

\* init_trace_logger(session_id) called for a session
InitTraceLogger(s) ==
    /\ _current_logger' = init_trace_logger(s)
    /\ last' = [op |-> "init_trace_logger", session_id |-> s]
    /\ UNCHANGED <<current_state, intake_packet, assumptions, timebox, chat_history, chat_buttons,
                   api_key, handoff, config, session_state>>

\* A state transition of a session logged through get_trace_logger, called with the
\* session's identifier or with none
LogStateTransition(s) ==
    /\ \E session_id \in {s, None} :
       \E logger \in {get_trace_logger(_current_logger, session_id)} :
          /\ logger # NoLogger
          /\ Len(logger.entries) < MaxEntries
          /\ _current_logger' = log_state_transition(logger, session_state[s].current_state,
                                                     session_state[s].current_state)
    /\ last' = [op |-> "log_state_transition", session_id |-> s]
    /\ UNCHANGED <<current_state, intake_packet, assumptions, timebox, chat_history, chat_buttons,
                   api_key, handoff, config, session_state>>

NextSessions ==
    \E s \in SessionIds :
       \/ SessionMessage(s)
       \/ SessionAddTheme(s)
       \/ GetTraceLogger(s)
       \/ InitTraceLogger(s)
       \/ LogStateTransition(s)

InitSessions == Init /\ api_key = ""

SpecSessions == InitSessions /\ [][NextSessions]_vars

(***************************************************************************)
(* A session driven by chat_intake_step and fed with what the step         *)
(* returns: the ChatIntakeResult holds the new state, the packet, the      *)
(* assumptions and the buttons, the session keeps the messages it sent,    *)
(* and the timebox of the next call is the one the result holds, or the    *)
(* session's own when the result holds none.                               *)
(***************************************************************************)
\* The messages a session fed with the results sends
MaxReturnedTurns == 3

\* result.get(key, kept)
Returned(result, key, kept) == IF key \in DOMAIN result THEN result[key] ELSE kept

ChatIntakeStepReturned ==
    \E input \in Inputs(Len(UserTexts(chat_history))) :
       LET user_message == input[1]
           user_action == input[2]
       IN \E result \in {chat_intake_step(chat_history, intake_packet, assumptions, timebox,
                                          current_state, user_message, user_action, config)} :
          /\ Truthy(user_message) => Len(UserTexts(chat_history)) < MaxReturnedTurns
          /\ current_state' = result.new_state
          /\ intake_packet' = result.intake_packet
          /\ assumptions' = result.assumptions
          /\ chat_buttons' = result.buttons
          /\ chat_history' = IF Truthy(user_message)
                             THEN Append(chat_history, create_message("user", user_message, current_state))
                             ELSE chat_history
          /\ timebox' = Returned(result, "timebox", timebox)
          /\ last' = Last("chat_intake_step", user_message, user_action, result.system_messages,
                          result.open_questions, result.should_run_step0, Debug(FALSE, <<>>))
          /\ UNCHANGED <<api_key, handoff, config, session_state, _current_logger>>

NextReturned == ChatIntakeStepReturned

InitReturned == Init /\ api_key = ""

SpecReturned == InitReturned /\ [][NextReturned]_vars

(***************************************************************************)
(* _detect_timeline applied to what a user says about the timeline         *)
(***************************************************************************)
\* The phrases of the scenarios
TimelinePhrases == {"this month", "next quarter", "eventually, no rush"}

DetectTimeline ==
    /\ \E text \in {d[1] : d \in Durations} \cup TimelinePhrases \cup Messages :
          last' = [op |-> "_detect_timeline", text |-> text, timeline |-> _detect_timeline(text)]
    /\ UNCHANGED <<current_state, intake_packet, assumptions, timebox, chat_history, chat_buttons,
                   api_key, handoff, config, session_state, _current_logger>>

NextTimeline == DetectTimeline

InitTimeline == Init /\ api_key = ""

SpecTimeline == InitTimeline /\ [][NextTimeline]_vars

(***************************************************************************)
(* Properties the specification document states of the intake              *)
(***************************************************************************)
\* The states before the assumptions checkpoint, of chat_intake and of chat_llm_v2
PreCheckpoint ==
    {"S0_ENTRY", "S1_INTENT", "S2_OPPORTUNITY", "S3_CONTEXT", "S3_LOCATION", "S3_ORG_SIZE",
     "S3_TIMELINE", "S3_STAKEHOLDERS", "S4_INTEGRATION", "S4_RISK", "S4_INTEGRATION_RISK"}

\* low < med < high
Rank(confidence) ==
    CASE confidence = "low" -> 1 [] confidence = "med" -> 2 [] confidence = "high" -> 3 [] OTHER -> 0

\* C1: a chat_intake_step that registers a user message at a pre-checkpoint state, after
\* which should_force_proceed holds of the timebox (20 messages registered or more),
\* returns new_state S5_ASSUMPTIONS_CHECK whatever the intake fields hold, and lists the
\* unset blockers in open_questions.
C1_ForcedProgression ==
    [][(/\ last'.op = "chat_intake_step"
        /\ last'.user_action = "message"
        /\ Truthy(last'.user_message)
        /\ current_state \in PreCheckpoint
        /\ should_force_proceed(timebox'))
       => /\ current_state' = "S5_ASSUMPTIONS_CHECK"
          /\ last'.open_questions = OpenQuestions(intake_packet')]_vars

\* C2: a fast_path action at a pre-checkpoint state moves the session to
\* S5_ASSUMPTIONS_CHECK in that one step, and a fast_path action at the checkpoint moves
\* it to S6_RUN_STEP0.
C2_FastPath ==
    [][last'.user_action = "fast_path"
       => /\ current_state \in PreCheckpoint => current_state' = "S5_ASSUMPTIONS_CHECK"
          /\ current_state = "S5_ASSUMPTIONS_CHECK" => current_state' = "S6_RUN_STEP0"]_vars

\* C3: user actions come before the hard-stop rule: a chat_intake_step with the action
\* fast_path or start_over at a pre-checkpoint state whose timebox has reached the hard
\* stop performs the action's transition (to S5_ASSUMPTIONS_CHECK, to S0_ENTRY) and does
\* not return the hard-stop prompt.
C3_ActionsBeforeHardStop ==
    [][(/\ last'.op = "chat_intake_step"
        /\ last'.user_action \in {"fast_path", "start_over"}
        /\ current_state \in PreCheckpoint
        /\ reached_hard_stop(timebox', config))
       => /\ current_state' = IF last'.user_action = "fast_path"
                              THEN "S5_ASSUMPTIONS_CHECK" ELSE "S0_ENTRY"
          /\ last'.system_messages # <<UX_COPY["HARD_STOP"]>>]_vars

\* C4: after a start_over action, on any path that handles it, the state is S0_ENTRY and
\* the intake packet, the assumptions, the timebox and the context handoff are equal to
\* their freshly initialized values.
C4_StartOverResets ==
    [][last'.user_action = "start_over"
       => /\ current_state' = "S0_ENTRY"
          /\ intake_packet' = init_intake_packet
          /\ assumptions' = <<>>
          /\ timebox' = init_timebox
          /\ handoff' = create_context_handoff]_vars

\* C5: the checkpoint and the confirm-type state are left only by an explicit action:
\* confirm_proceed at S5_ASSUMPTIONS_CHECK yields S6_RUN_STEP0, a plain user message at
\* S5_ASSUMPTIONS_CHECK or S7_CONFIRM_TYPE leaves the state unchanged, and the session
\* never enters S6_RUN_STEP0 without a confirm_proceed or fast_path action.
C5_CheckpointNeedsAction ==
    [][/\ (last'.user_action = "confirm_proceed" /\ current_state = "S5_ASSUMPTIONS_CHECK")
             => current_state' = "S6_RUN_STEP0"
       /\ (last'.user_action = "message" /\ current_state \in {"S5_ASSUMPTIONS_CHECK", "S7_CONFIRM_TYPE"})
             => current_state' = current_state
       /\ (current_state' = "S6_RUN_STEP0" /\ current_state # "S6_RUN_STEP0")
             => last'.user_action \in {"confirm_proceed", "fast_path"}]_vars

\* C6: monotonic confidence: an update of the intake packet leaves every field's
\* confidence rank (low < med < high) at least what it was, unless the new value's source
\* is user_edit.
C6_MonotonicConfidence ==
    [][\A f \in DOMAIN intake_packet :
          (/\ f \in DOMAIN intake_packet'
           /\ IsDict(f)
           /\ Rank(Get(intake_packet[f], "confidence")) > 0
           /\ Rank(Get(intake_packet'[f], "confidence")) > 0)
          => \/ Rank(Get(intake_packet'[f], "confidence")) >= Rank(Get(intake_packet[f], "confidence"))
             \/ Get(intake_packet'[f], "source") = "user_edit"]_vars

\* The assumption a correction names is one whose statement handle_fix_assumption takes
\* to be about the industry
CorrectsIndustry(id) ==
    \E i \in DOMAIN assumptions :
        assumptions[i].id = id /\ FixedField(assumptions[i].statement) = "industry"

\* C7: after handle_fix_assumption has corrected the industry, risk_posture is the one
\* inferred from the new industry, with source inferred, and every returned assumption
\* whose statement mentions industry or risk has the status needs_revalidation.
C7_DependencyRipple ==
    [][(last'.op = "handle_fix_assumption" /\ CorrectsIndustry(last'.assumption_id))
       => /\ Get(intake_packet'["risk_posture"], "source") = "inferred"
          /\ Get(intake_packet'["risk_posture"], "level") = infer_risk_posture(intake_packet')[1]
          /\ \A j \in DOMAIN assumptions' :
                (\/ StatementHas("industry", assumptions'[j].statement)
                 \/ StatementHas("risk", assumptions'[j].statement))
                => assumptions'[j].status = "needs_revalidation"]_vars

\* The field an assumption of update_judgments was generated from
TargetField(statement) == CHOOSE f \in DOMAIN TitleTable : TitleTable[f] = statement.title

\* C8: handle_fix_assumption on an assumption of the list sets the field the assumption is
\* about to new_value with source user_edit and confidence high, and returns the
\* assumption of that id with the status corrected.
C8_FixSetsField ==
    [][(last'.op = "handle_fix_assumption"
        /\ \E i \in DOMAIN assumptions : assumptions[i].id = last'.assumption_id)
       => LET a == CHOOSE i \in DOMAIN assumptions : assumptions[i].id = last'.assumption_id
              fixed == intake_packet'[TargetField(assumptions[a].statement)]
          IN /\ last'.new_value \in {Get(fixed, "value"), Get(fixed, "bucket"), Get(fixed, "raw"),
                                     Get(fixed, "level")}
             /\ Get(fixed, "source") = "user_edit"
             /\ Get(fixed, "confidence") = "high"
             /\ \E j \in DOMAIN assumptions' :
                   /\ assumptions'[j].id = last'.assumption_id
                   /\ assumptions'[j].status = "corrected"]_vars

\* The user messages recorded at the intent stage that are longer than 20 characters
SubstantialIntent(blocks) ==
    LET substantial(b) == b.stage \in {"S0_ENTRY", "S1_INTENT"} /\ Len(b.user_verbatim) > 20
    IN SelectSeq(blocks, substantial)

\* C9: once a substantial (longer than 20 characters) user message has been recorded at
\* the intent stage, golden_thread is the first such message, verbatim, whatever was or
\* is recorded, narrated or added as a theme besides.
C9_GoldenThread ==
    SubstantialIntent(handoff.blocks) # <<>>
    => handoff.golden_thread = SubstantialIntent(handoff.blocks)[1].user_verbatim

\* The questions that ask for the use case, and those that ask where the agent operates
IntentQuestions == {UX_COPY["S1_INTENT"], RESPONSES["S1_NEED_MORE"]}

LocationQuestions == {UX_COPY["S3_CONTEXT"], RESPONSES["S3_LOCATION"], RESPONSES["S3_CONTEXT"]}

\* The field has a value of confidence med or high
Settled(packet, field) ==
    Truthy(PGet(packet, field, "value")) /\ Rank(PGet(packet, field, "confidence")) >= 2

\* C10: when the session enters or re-enters the intent state with use_case_intent set at
\* confidence med or better, or the location/context state with industry and jurisdiction
\* so set, the response does not ask for that field again.
C10_NoRepeatedAsk ==
    [][/\ (current_state' = "S1_INTENT" /\ Settled(intake_packet, "use_case_intent"))
          => \A i \in DOMAIN last'.system_messages : last'.system_messages[i] \notin IntentQuestions
       /\ (/\ current_state' \in {"S3_CONTEXT", "S3_LOCATION"}
           /\ Settled(intake_packet, "industry")
           /\ Settled(intake_packet, "jurisdiction"))
          => \A i \in DOMAIN last'.system_messages : last'.system_messages[i] \notin LocationQuestions]_vars

\* C11: in every state of a session, extension_turns is greater than 0 only if
\* hard_stop_reached is true, and extension_turns never exceeds 2: once it has reached 2
\* later turns do not increase it.
C11_ExtensionTurns ==
    /\ timebox.extension_turns > 0 => timebox.hard_stop_reached
    /\ timebox.extension_turns <= max_extension_turns

\* C12: a register_turn call adds exactly 1 to turns, adds 1 to hard_questions iff
\* is_hard_question is set, leaves hard_stop_reached true once it is and sets it on the
\* call that brings turns to hard_cap_turns (the configured limit, 18 without one), and
\* adds 1 to extension_turns exactly when hard_stop_reached was already true; so in every
\* state of a timebox hard_stop_reached holds iff turns >= hard_cap_turns.
C12_RegisterTurn ==
    /\ [][last'.op = "register_turn"
          => /\ timebox'.turns = timebox.turns + 1
             /\ timebox'.hard_questions
                  = timebox.hard_questions + (IF last'.is_hard_question THEN 1 ELSE 0)
             /\ timebox.hard_stop_reached => timebox'.hard_stop_reached
             /\ timebox'.turns >= Limit(config, "hard_cap_turns", hard_cap_turns)
                  => timebox'.hard_stop_reached
             /\ timebox'.extension_turns
                  = timebox.extension_turns + (IF timebox.hard_stop_reached THEN 1 ELSE 0)
             /\ timebox'.fast_path_offered = timebox.fast_path_offered]_vars
    /\ [](timebox.hard_stop_reached
          <=> timebox.turns >= Limit(config, "hard_cap_turns", hard_cap_turns))

\* A configured hard stop passed, with a hard question among the turns
C12_PastConfiguredStop ==
    /\ last.op = "register_turn"
    /\ config = [hard_cap_turns |-> 3]
    /\ timebox.hard_stop_reached
    /\ timebox.extension_turns > 0
    /\ timebox.hard_questions > 0

\* C13: a chat_intake_step at a pre-checkpoint state, with the hard stop reached once the
\* user's message is registered and should_force_proceed false, returns the state it was
\* given, the hard-stop message alone, the three buttons proceed / add more / restart and
\* should_run_step0 false; the prompt adds no extension turn of its own: the extension
\* turns after the step are those the registered message gave, and none without a message.
C13_HardStopPrompt ==
    [][(/\ last'.op = "chat_intake_step"
        /\ current_state \in PreCheckpoint
        /\ timebox'.hard_stop_reached
        /\ ~should_force_proceed(timebox'))
       => /\ current_state' = current_state
          /\ last'.system_messages = <<UX_COPY["HARD_STOP"]>>
          /\ chat_buttons' = <<"confirm_proceed", "message", "start_over">>
          /\ ~last'.should_run_step0
          /\ timebox'.extension_turns
               = IF Truthy(last'.user_message) /\ timebox.hard_stop_reached
                 THEN timebox.extension_turns + 1 ELSE timebox.extension_turns]_vars

\* The prompt returned a second time: the message after the first prompt was an extension turn
C13_SecondPrompt ==
    /\ last.op = "chat_intake_step"
    /\ Truthy(last.user_message)
    /\ current_state \in PreCheckpoint
    /\ last.system_messages = <<UX_COPY["HARD_STOP"]>>
    /\ chat_buttons = HARD_STOP_BUTTONS
    /\ timebox.extension_turns = 1

\* industry, use_case_intent and jurisdiction all have a value
BlockersSet(packet) ==
    \A field \in {"industry", "use_case_intent", "jurisdiction"} :
       Truthy(PGet(packet, field, "value"))

\* C14: blockers gate the pipeline: can_proceed_to_research returns (true, no missing ids)
\* iff industry, use_case_intent and jurisdiction all have a value, and no operation of
\* the session (a confirm_proceed or fast_path action, a plain message) hands over to
\* research stage 0 while one of the three is unset.
C14_BlockersGate ==
    /\ can_proceed_to_research(intake_packet) = <<TRUE, <<>>>> <=> BlockersSet(intake_packet)
    /\ last.should_run_step0 => BlockersSet(intake_packet)

\* The call gave nothing the handlers can use: no client, or a reply that is no JSON object
Unusable(llm) == get_chat_client(get_api_key) = None \/ llm.kind # "object"

\* C15: extraction never aborts a turn: at every state of a session, for every message and
\* every outcome of the language-model call (no credential, a failed call, unparseable or
\* empty text, JSON that is no object, an object), process_state raises nothing and
\* returns a result with a next_state of the state machine and a dict of
\* intake_packet_updates; where the model's result was unusable no update of it is marked
\* as extracted by the model.
C15_ExtractionNeverAborts ==
    \A message \in AnswersAt(current_state), llm \in Replies(current_state, 0) :
       \A result \in {process_state(current_state, message, intake_packet, get_api_key, llm)} :
          /\ {"next_state", "intake_packet_updates"} \subseteq DOMAIN result
          /\ result.next_state \in PreCheckpoint \cup PastIntake
          /\ \A field \in DOMAIN result.intake_packet_updates :
                /\ field \in DOMAIN init_intake_packet \cup {"use_case_synthesized"}
                /\ Unusable(llm) /\ IsDict(field)
                   => Get(result.intake_packet_updates[field], "source") # "llm_extracted"

\* A turn past the intent stage completed on keywords after the model's call failed
C15_FallbackTurn ==
    /\ last.op = "handle_chat_message"
    /\ api_key # ""
    /\ last.debug_info.fallback_used
    /\ current_state = "S3_ORG_SIZE"
    /\ Truthy(PGet(intake_packet, "jurisdiction", "value"))

\* C16: at the intent stage, for every user message in which _detect_industry finds an
\* industry and every outcome of the language-model call (a different industry, the same
\* one, no industry, a failed call), the industry of the packet after the turn is the
\* keyword-detected one, and debug_info records the override when the model's industry
\* and the keywords' disagree.
C16_KeywordOverride ==
    current_state \in {"S0_ENTRY", "S1_INTENT"}
    => \A message \in AnswersAt(current_state), llm \in Replies(current_state, 0) :
          \A result \in {process_state(current_state, message, intake_packet, get_api_key, llm)} :
             LET keyword_industry == _detect_industry(message)
                 llm_industry == _normalize_industry(Get(llm.obj, "industry"))
                 after == Merged(intake_packet, result.intake_packet_updates)
             IN keyword_industry # None
                => /\ PGet(after, "industry", "value") = keyword_industry
                   /\ (/\ get_chat_client(get_api_key) # None
                       /\ Truthy(llm_industry)
                       /\ llm_industry # keyword_industry)
                      => result.debug_info.industry_override = <<llm_industry, keyword_industry>>

\* C17: every field the extractor has written carries the confidence its provenance
\* determines: high when the language model extracted it, med when keywords matched it,
\* low when the user's raw text was stored without extraction; in every state handler and
\* in the keyword-only fallback.
C17_ConfidencePolicy ==
    \A field \in DOMAIN intake_packet :
       IsDict(field)
       => LET source == Get(intake_packet[field], "source")
              confidence == Get(intake_packet[field], "confidence")
          IN /\ source = "llm_extracted" => confidence = "high"
             /\ source = "keyword_match" => confidence = "med"
             /\ source = "user_direct" => confidence = "low"

\* The field holds something: a value, a bucket or a level, or (integration_surface) systems
HasValue(packet, field) ==
    \/ Truthy(PGet(packet, field, "value"))
    \/ Truthy(PGet(packet, field, "bucket"))
    \/ Truthy(PGet(packet, field, "level"))
    \/ field = "integration_surface" /\ Systems(packet) # <<>>

\* C18: in every intake packet a session reaches by extractions, merges and corrections,
\* no field has confidence high while its value (value, bucket or level) is unset.
C18_NoHighWithoutValue ==
    \A field \in DOMAIN intake_packet :
       IsDict(field) /\ PGet(intake_packet, field, "confidence") = "high"
       => HasValue(intake_packet, field)

\* The set fields whose source is inferred or keyword_match and whose confidence is med or low
Derivable(packet) ==
    {field \in DOMAIN packet :
        /\ IsDict(field)
        /\ Truthy(AnyValue(packet[field]))
        /\ Get(packet[field], "source") \in {"inferred", "keyword_match"}
        /\ Get(packet[field], "confidence") \in {"med", "low"}}

\* The statement, status and impact of the assumption of a field
DerivedFrom(packet, field) ==
    [statement |-> Statement("{title} is {value}", TitleTable[field], AnyValue(packet[field])),
     status    |-> "assumed",
     impact    |-> IF field \in {"industry", "jurisdiction", "use_case_intent"} THEN "high" ELSE "med"]

\* C19: after update_judgments the assumptions list holds exactly one assumption for each
\* set field whose source is inferred or keyword_match and whose confidence is med or low,
\* and none for any other field; each has the statement "<Field> is <value>", the status
\* assumed, and the impact high for industry, jurisdiction and use_case_intent, med
\* otherwise.
C19_AssumptionDerivation ==
    [][last'.op = "update_judgments"
       => /\ Len(assumptions') = Cardinality(Derivable(intake_packet'))
          /\ \A field \in Derivable(intake_packet') :
                \E i \in DOMAIN assumptions' :
                   [statement |-> assumptions'[i].statement,
                    status    |-> assumptions'[i].status,
                    impact    |-> assumptions'[i].impact] = DerivedFrom(intake_packet', field)]_vars

\* The last chat_intake_step made the fast-path offer: it passed the hard-stop prompt,
\* should_offer_fast_path held of its timebox and its new state was not S5 or S6
OfferMade ==
    /\ last.op = "chat_intake_step"
    /\ last.system_messages # <<UX_COPY["HARD_STOP"]>>
    /\ should_offer_fast_path(timebox, config)
    /\ current_state \notin {"S5_ASSUMPTIONS_CHECK", "S6_RUN_STEP0"}

\* C20: should_offer_fast_path is true iff fast_path_offered is false and turns >=
\* default_turns or hard_questions >= hard_questions_max, with the limits of the
\* configuration (10 and 4 without one); and once a step of the session has made the offer
\* it is recorded: should_offer_fast_path is not true again on the turns after it.
C20_FastPathOffer ==
    [][/\ should_offer_fast_path(timebox', config)
          <=> /\ ~timebox'.fast_path_offered
              /\ \/ timebox'.turns >= Limit(config, "default_turns", default_turns)
                 \/ timebox'.hard_questions >= Limit(config, "hard_questions_max", hard_questions_max)
       /\ OfferMade /\ Truthy(last'.user_message)
          => ~should_offer_fast_path(timebox', config)]_vars


(***************************************************************************)
(* Sessions                                                                *)
(***************************************************************************)
\* The trace log reached through a session's identifier: the entries of the logger
\* get_trace_logger(session_id) gives
TraceOf(s) == get_trace_logger(_current_logger, s).entries

\* C21: session isolation. With two sessions interleaving their operations, an operation
\* performed for one session leaves the other session's intake packet, timebox, context
\* handoff and trace log as they were.
C21_SessionIsolation ==
    [][\A s \in SessionIds :
          last'.session_id # s
          => /\ session_state'[s] = session_state[s]
             /\ TraceOf(s)' = TraceOf(s)]_vars

(***************************************************************************)
(* Turns                                                                   *)
(***************************************************************************)
\* C22: one user message is one registered turn, and the registration persists: a user
\* message processed by chat_intake_step, the session fed with what the call returned, or by
\* handle_chat_message, leaves the session's timebox with one turn more, so that the
\* timebox has turns = n after n messages.
C22_TurnPerMessage ==
    [][(last'.op \in {"chat_intake_step", "handle_chat_message"} /\ Truthy(last'.user_message))
          => timebox'.turns = timebox.turns + 1]_vars

(***************************************************************************)
(* The order of the states                                                 *)
(***************************************************************************)
\* The states that ask once: location, organization size, timeline, stakeholders
SingleShot == {"S3_LOCATION", "S3_ORG_SIZE", "S3_TIMELINE", "S3_STAKEHOLDERS"}

\* The state after a state in the linear order of the extractor
Following(state) ==
    LET i == CHOOSE j \in DOMAIN state_order : state_order[j] = state IN state_order[i + 1]

\* A JSON object of the model that holds none of the fields a handler reads
NothingStated == Reply("object", [reasoning |-> "The user did not say."])

\* C23: single-shot asks: at the location, organization-size, timeline and stakeholders
\* states one user message always advances to the next state of the linear order
\* (S3_LOCATION, S3_ORG_SIZE, S3_TIMELINE, S3_STAKEHOLDERS, then S4_INTEGRATION), whether
\* or not the field of the state was extracted and whether the language model or the
\* keyword fallback was used; none of these states is repeated.
C23_SingleShot ==
    current_state \in SingleShot
    => \A message \in Messages \cup AnswersAt(current_state),
          llm \in Replies(current_state, 0) \cup {NothingStated} :
          process_state(current_state, message, intake_packet, get_api_key, llm).next_state
             = Following(current_state)

\* The stakeholders were asked for, nothing was extracted, and the session has moved on
C23_AdvancedWithoutValue ==
    /\ last.op = "handle_chat_message"
    /\ current_state = "S4_INTEGRATION"
    /\ ~HasValue(intake_packet, "stakeholder_reality")
    /\ ~Truthy(PGet(intake_packet, "stakeholder_reality", "users"))

\* use_case_intent is set with a value longer than 20 characters
LongIntent(packet) ==
    /\ Truthy(PGet(packet, "use_case_intent", "value"))
    /\ Len(PGet(packet, "use_case_intent", "value")) > 20

\* C24: intent completion: a plain user message at the intent state advances to the
\* opportunity state iff, after the extraction of that turn, use_case_intent is set with a
\* value longer than 20 characters; otherwise the state stays at intent for a follow-up.
C24_IntentCompletion ==
    [][(/\ last'.op = "handle_chat_message"
        /\ current_state = "S1_INTENT")
          => /\ current_state' \in {"S1_INTENT", "S2_OPPORTUNITY"}
             /\ current_state' = "S2_OPPORTUNITY" <=> LongIntent(intake_packet')]_vars

\* The location/context stage, and the integration and risk sub-stages that may follow it
ContextStage == {"S3_CONTEXT", "S3_LOCATION", "S3_ORG_SIZE", "S3_TIMELINE", "S3_STAKEHOLDERS"}

IntegrationStage == {"S4_INTEGRATION", "S4_INTEGRATION_RISK"}

\* C25: regulated-domain branch: when a plain message completes the location/context
\* stage, the integration and risk sub-stages are entered iff the industry is regulated
\* (healthcare, finance, government, energy) or integration systems have already been
\* mentioned; otherwise the next state is the assumptions checkpoint, both sub-stages skipped.
C25_RegulatedBranch ==
    [][(/\ last'.op \in {"handle_chat_message", "chat_intake_step"}
        /\ last'.user_action = "message"
        /\ current_state \in ContextStage
        /\ current_state' \notin ContextStage)
          => IF is_regulated_domain(intake_packet') \/ Systems(intake_packet') # <<>>
             THEN current_state' \in IntegrationStage
             ELSE current_state' = "S5_ASSUMPTIONS_CHECK"]_vars

(***************************************************************************)
(* The timeline of the keyword path                                        *)
(***************************************************************************)
\* The bucket of a duration: urgent up to 1 month, near-term up to 6 months, exploratory
\* beyond; 4 weeks are 1 month, a quarter 3 months, a year 12.  Counted in weeks.
BucketOf(num, unit) ==
    LET weeks == CASE unit = "week" -> num
                   [] unit = "month" -> num * 4
                   [] unit = "quarter" -> num * 3 * 4
                   [] unit = "year" -> num * 12 * 4
    IN IF weeks <= 1 * 4 THEN "urgent" ELSE IF weeks <= 6 * 4 THEN "near-term" ELSE "exploratory"

\* C26: timeline bucketing by the keyword path: _detect_timeline maps a duration
\* "N weeks/months/quarters/years" to urgent when it is at most 1 month, to near-term when
\* it is at most 6 months and to exploratory when it is longer, and maps "this month" to
\* urgent, "next quarter" to near-term and "eventually, no rush" to exploratory.
C26_TimelineBuckets ==
    last.op = "_detect_timeline"
    => /\ \A d \in Durations : last.text = d[1] => last.timeline = BucketOf(d[2], d[3])
       /\ last.text = "this month" => last.timeline = "urgent"
       /\ last.text = "next quarter" => last.timeline = "near-term"
       /\ last.text = "eventually, no rush" => last.timeline = "exploratory"

\* A duration of 2 quarters was bucketed
C26_TwoQuarters ==
    /\ last.op = "_detect_timeline"
    /\ last.text = "in 2 quarters"
    /\ last.timeline = "near-term"

(***************************************************************************)
(* What update_judgments leaves alone                                      *)
(***************************************************************************)
\* The fields update_judgments extracts, in the order it goes through them
ExtractedFields ==
    <<"industry", "use_case_intent", "opportunity_shape", "jurisdiction", "timeline",
      "organization_size", "integration_surface", "risk_posture">>

\* C27: merge only fills gaps: update_judgments called without changed_field changes only
\* fields that had no value, and only the eight it extracts (industry, use_case_intent,
\* opportunity_shape, jurisdiction, timeline, organization_size, integration_surface,
\* risk_posture); every field that had a value before the call has the same value,
\* confidence and source after it.
C27_MergeFillsGaps ==
    [][last'.op = "update_judgments"
          => \A field \in DOMAIN intake_packet :
                /\ field \in DOMAIN intake_packet'
                /\ IsDict(field) /\ HasValue(intake_packet, field)
                   => intake_packet'[field] = intake_packet[field]
                /\ intake_packet'[field] # intake_packet[field]
                   => InSeq(field, ExtractedFields)]_vars

\* update_judgments has filled the risk posture of a packet whose industry the keywords
\* of the extractor had set
C27_GapFilled ==
    /\ last.op = "update_judgments"
    /\ PGet(intake_packet, "industry", "source") = "keyword_match"
    /\ HasValue(intake_packet, "industry")
    /\ PGet(intake_packet, "risk_posture", "source") = "inferred"
    /\ HasValue(intake_packet, "risk_posture")

\* The place of a state in the linear order entry, intent, opportunity, location/context,
\* org-size, timeline, stakeholders, integration, risk, checkpoint, run-stage-0,
\* confirm-type, run-stage-1-3, exports; the legacy S4_INTEGRATION_RISK stands where the
\* integration stage begins
Position(state) ==
    CASE state = "S0_ENTRY" -> 0
      [] state = "S1_INTENT" -> 1
      [] state = "S2_OPPORTUNITY" -> 2
      [] state \in {"S3_CONTEXT", "S3_LOCATION"} -> 3
      [] state = "S3_ORG_SIZE" -> 4
      [] state = "S3_TIMELINE" -> 5
      [] state = "S3_STAKEHOLDERS" -> 6
      [] state \in {"S4_INTEGRATION", "S4_INTEGRATION_RISK"} -> 7
      [] state = "S4_RISK" -> 8
      [] state = "S5_ASSUMPTIONS_CHECK" -> 9
      [] state = "S6_RUN_STEP0" -> 10
      [] state = "S7_CONFIRM_TYPE" -> 11
      [] state = "S8_RUN_STEP1_3" -> 12
      [] state = "S9_EXPORTS" -> 13

\* C28: forward-only progression: for every current state (the legacy states S3_CONTEXT and
\* S4_INTEGRATION_RISK and the states past the checkpoint among them), every message,
\* every outcome of the language-model call including no client, and every action but
\* start_over, process_state and determine_next_state return a state at or after the
\* current one in the linear order.
C28_ForwardOnly ==
    \A state \in States :
       /\ \A message \in AnswersAt(state), llm \in Replies(state, 0) :
             Position(process_state(state, message, intake_packet, get_api_key, llm).next_state)
                >= Position(state)
       /\ \A user_action \in UserAction \ {"start_over"} :
             Position(determine_next_state(state, intake_packet, user_action)) >= Position(state)

(***************************************************************************)
(* What a correction touches                                               *)
(***************************************************************************)
\* C29: a correction touches only its own field: handle_fix_assumption changes only the
\* intake field the corrected assumption was derived from (and risk_posture with it when
\* that field is the industry), and marks no assumption corrected for which it changed no
\* field.
C29_FixTouchesOwnField ==
    [][(last'.op = "handle_fix_assumption"
        /\ \E i \in DOMAIN assumptions : assumptions[i].id = last'.assumption_id)
       => LET a == CHOOSE i \in DOMAIN assumptions :
                      /\ assumptions[i].id = last'.assumption_id
                      /\ \A j \in DOMAIN assumptions : assumptions[j].id = last'.assumption_id => i <= j
              own == TargetField(assumptions[a].statement)
          IN /\ \A field \in DOMAIN intake_packet :
                   intake_packet'[field] # intake_packet[field]
                   => field = own \/ (own = "industry" /\ field = "risk_posture")
             /\ (\E j \in DOMAIN assumptions' :
                    /\ assumptions'[j].id = last'.assumption_id
                    /\ assumptions'[j].statement = assumptions[a].statement
                    /\ assumptions'[j].status = "corrected")
                => intake_packet'[own] # intake_packet[own]]_vars

(***************************************************************************)
(* The proceed button of the hard-stop prompt                              *)
(***************************************************************************)
\* C30: the proceed button of the hard-stop prompt makes progress: when the prompt and its
\* buttons are showing at a pre-checkpoint state, a chat_intake_step with the action
\* confirm_proceed and no user message leaves that state for a later one, and so cannot
\* return the same prompt with the state and the timebox unchanged.
C30_ProceedMakesProgress ==
    [][(/\ last'.op = "chat_intake_step"
        /\ last'.user_action = "confirm_proceed"
        /\ ~Truthy(last'.user_message)
        /\ current_state \in PreCheckpoint
        /\ chat_buttons = HARD_STOP_BUTTONS)
       => /\ Position(current_state') > Position(current_state)
          /\ ~(/\ last'.system_messages = <<UX_COPY["HARD_STOP"]>>
               /\ timebox' = timebox)]_vars
====
